---- MODULE Spec2Model ----
(***************************************************************************)
(* Model of the AffinityTable data engine: the record pool                 *)
(* (FStructDatablock), the per-structure page (FAffinityTablePage) and the *)
(* table facade (UAffinityTable).                                          *)
(*                                                                         *)
(* Conventions                                                             *)
(*  - A gameplay tag is the sequence of its segments; the invalid (empty)  *)
(*    tag is <<>>; RequestDirectParent drops the last segment.             *)
(*  - A 64-bit page handle is the pair of its 32-bit halves [hi, lo].      *)
(*    The all-ones 32-bit word MAX_uint32 is written -1 (its signed        *)
(*    reading); it is only ever compared for equality.                     *)
(*  - check(...) is active (editor and development builds): a failed check *)
(*    aborts the process, which the model records in a Crashed flag.       *)
(*  - The content of a record is one value; a pool keeps the values that   *)
(*    differ from the structure default, every other slot holds the        *)
(*    default.                                                             *)
(***************************************************************************)
EXTENDS Integers, Sequences, FiniteSets, TLC

VARIABLES
    Rows,             \* UAffinityTable::Rows: tag -> TagIndex
    Columns,          \* UAffinityTable::Columns: tag -> TagIndex
    NextRowIndex,     \* UAffinityTable::NextRowIndex
    NextColumnIndex,  \* UAffinityTable::NextColumnIndex
    Structures,       \* UAffinityTable::Structures (edited through the property panel)
    Pages,            \* UAffinityTable::Pages, or the page under test
    InheritanceMaps,  \* UAffinityTable::InheritanceMaps: structure -> cell -> parent cell
    Editor,           \* the FAffinityTableEditor open on the table, if any
    RowTags,          \* UAffinityTable::RowTags: the row tags as the asset stores them
    ColumnTags,       \* UAffinityTable::ColumnTags
    RowColors,        \* UAffinityTable::RowColors: tag -> color
    ColumnColors,     \* UAffinityTable::ColumnColors
    bHasLoadingErrors,\* UAffinityTable::bHasLoadingErrors
    Archive,          \* what the last save wrote
    Datablock,        \* the FStructDatablock under test, if there is one
    fatal,            \* a check() failed: the process is gone
    lastOp            \* the last call made and what it returned

vars == <<Rows, Columns, NextRowIndex, NextColumnIndex, Structures, Pages,
          InheritanceMaps, Editor, RowTags, ColumnTags, RowColors, ColumnColors,
          bHasLoadingErrors, Archive, Datablock, fatal, lastOp>>

\* What only a save or a load touches.
assetVars == <<RowTags, ColumnTags, bHasLoadingErrors, Archive>>

colorVars == <<RowColors, ColumnColors>>

----------------------------------------------------------------------------
(* Program constants *)

MaxDatablockCapacity == 512

MAX_uint32 == -1

InvalidHandle == MAX_uint32

InvalidIndex == MAX_uint32

InvalidDataHandle == [hi |-> MAX_uint32, lo |-> MAX_uint32]

\* The structure default of a record (UScriptStruct::InitializeStruct / ClearScriptStruct).
DefaultValue == 0

\* A null UScriptStruct pointer.
NullStruct == 0

\* A null record pointer.
NullPtr == [blk |-> -1, slot |-> -1]

----------------------------------------------------------------------------
(* Bounds of the model *)

\* Root tags of the tag dictionary of an axis.
NumRoots == 1

\* Depth of the chain of tags below the first root.
MaxDepth == 3

\* Indices issued per axis in a session.
MaxIndex == 2

\* Registered structures besides the null entry.
NumSchemas == 1

\* Entries of the Structures array.
MaxStructures == 1

\* Non-default record values.
NumValues == 1

\* Rows and columns of a page under test.
MaxPageRows == 1

MaxPageColumns == 2

\* Rows and columns a page under test may grow by.
MaxPageGrowth == 1

\* Capacity of a datablock under test.
MaxPoolCapacity == 3

\* The colors a tag may be given.
NumColors == 1

\* Rows and columns of a saved table that is loaded.
MaxArchiveRows == 3

MaxArchiveColumns == 2

\* Cells selected at a time in the editor.
MaxSelected == 2

\* Cells of a table that is built before its inheritance is edited.
MaxCells == 6

\* Indices issued per axis in a session that deletes headers and adds them again.
MaxReissued == 3

\* Depth of the tags of such a session.
MaxHeaderDepth == 2

\* Structures a query requests at once.
MaxRequested == 2

----------------------------------------------------------------------------
(* Gameplay tags *)

EmptyTag == <<>>

IsValidTag(t) == t # EmptyTag

RequestDirectParent(t) == IF Len(t) <= 1 THEN EmptyTag ELSE SubSeq(t, 1, Len(t) - 1)

\* The tag dictionary: NumRoots root tags, and a chain of children below root 1.
TagDictionary ==
    { <<r>> : r \in 1..NumRoots } \cup { [i \in 1..n |-> 1] : n \in 2..MaxDepth }

\* Tags a caller may pass: any tag of the dictionary, or the invalid tag.
AnyTag == TagDictionary \cup {EmptyTag}

\* The sequences of at most n distinct elements of S.
DistinctSeqs(S, n) ==
    { q \in UNION { [1..k -> S] : k \in 0..n } : \A i, j \in DOMAIN q : q[i] = q[j] => i = j }

Schemas == 1..NumSchemas

Values == 0..NumValues

----------------------------------------------------------------------------
(* FStructDatablock *)

NoMem == [s \in {} |-> DefaultValue]

MemRead(d, s) == IF s \in DOMAIN d.Mem THEN d.Mem[s] ELSE DefaultValue

MemWrite(d, s, v) ==
    [d EXCEPT !.Mem = IF v = DefaultValue
                      THEN [x \in (DOMAIN d.Mem) \ {s} |-> d.Mem[x]]
                      ELSE [x \in (DOMAIN d.Mem) \cup {s} |-> IF x = s THEN v ELSE d.Mem[x]]]

\* Alloc(): the whole capacity is default-initialized, nothing is issued yet. There must
\* be no buffer and no free handle.
Alloc(d) ==
    [d EXCEPT !.Allocated = TRUE, !.Mem = NoMem, !.NextHandle = 0,
              !.Crashed = @ \/ d.Allocated \/ Len(d.FreeHandles) # 0]

\* The constructor: the capacity is capped, and the cap is then asserted away.
NewDatablock(DesiredCapacity, AllocNow) ==
    LET cap == IF DesiredCapacity < MaxDatablockCapacity THEN DesiredCapacity
               ELSE MaxDatablockCapacity
        d   == [Allocated |-> FALSE, Capacity |-> cap, NextHandle |-> InvalidHandle,
                FreeHandles |-> <<>>, Mem |-> NoMem,
                Crashed |-> (DesiredCapacity = 0 \/ cap # DesiredCapacity)]
    IN  IF AllocNow THEN Alloc(d) ELSE d

SwapAt(Heap, i, j) == [Heap EXCEPT ![i + 1] = Heap[j + 1], ![j + 1] = Heap[i + 1]]

\* TArray::HeapPop sifts the element moved to the root down a min-heap (0-based indices).
RECURSIVE HeapSiftDown(_, _)
HeapSiftDown(Heap, Index) ==
    LET Count == Len(Heap)
        Left  == 2 * Index + 1
        Right == Left + 1
    IN  IF Left >= Count THEN Heap
        ELSE LET MinChild == IF Right < Count /\ ~(Heap[Left + 1] < Heap[Right + 1])
                             THEN Right ELSE Left
             IN  IF ~(Heap[MinChild + 1] < Heap[Index + 1]) THEN Heap
                 ELSE HeapSiftDown(SwapAt(Heap, Index, MinChild), MinChild)

\* TArray::HeapPop: returns element 0, moves the last element to the root, sifts down.
HeapPop(Heap) ==
    LET n    == Len(Heap)
        rest == IF n = 1 THEN <<>>
                ELSE [i \in 1..(n - 1) |-> IF i = 1 THEN Heap[n] ELSE Heap[i]]
    IN  [Item |-> Heap[1], Heap |-> HeapSiftDown(rest, 0)]

\* A NewHandle that hands a recycled slot out as it is.
DatablockNewHandleStale(d0) ==
    LET d == IF d0.Allocated THEN d0 ELSE Alloc(d0)
    IN  IF d.NextHandle < d.Capacity
        THEN [Datablock |-> [d EXCEPT !.NextHandle = d.NextHandle + 1], Handle |-> d.NextHandle]
        ELSE IF Len(d.FreeHandles) > 0
        THEN [Datablock |-> [d EXCEPT !.FreeHandles = HeapPop(d.FreeHandles).Heap],
              Handle |-> HeapPop(d.FreeHandles).Item]
        ELSE [Datablock |-> d, Handle |-> InvalidHandle]

\* A NewHandle that prefers a recycled slot to an unopened one.
DatablockNewHandleRecycledFirst(d0) ==
    LET d == IF d0.Allocated THEN d0 ELSE Alloc(d0)
    IN  IF Len(d.FreeHandles) > 0
        THEN [Datablock |-> MemWrite([d EXCEPT !.FreeHandles = HeapPop(d.FreeHandles).Heap],
                                     HeapPop(d.FreeHandles).Item, DefaultValue),
              Handle |-> HeapPop(d.FreeHandles).Item]
        ELSE IF d.NextHandle < d.Capacity
        THEN [Datablock |-> [d EXCEPT !.NextHandle = d.NextHandle + 1], Handle |-> d.NextHandle]
        ELSE [Datablock |-> d, Handle |-> InvalidHandle]

\* FStructDatablock::NewHandle, returning the datablock and the handle.
DatablockNewHandle(d0) ==
    LET d == IF d0.Allocated THEN d0 ELSE Alloc(d0)
    IN  IF d.NextHandle < d.Capacity
        THEN [Datablock |-> [d EXCEPT !.NextHandle = d.NextHandle + 1], Handle |-> d.NextHandle]
        ELSE IF Len(d.FreeHandles) > 0
        THEN LET pop == HeapPop(d.FreeHandles)
             IN  [Datablock |-> MemWrite([d EXCEPT !.FreeHandles = pop.Heap], pop.Item, DefaultValue),
                  Handle |-> pop.Item]
        ELSE [Datablock |-> d, Handle |-> InvalidHandle]

\* A RecycleHandle that files the handle twice.
RecycleHandleTwice(d, Handle) ==
    [d EXCEPT !.FreeHandles = Append(Append(d.FreeHandles, Handle), Handle),
              !.Crashed = d.Crashed \/ Handle = InvalidHandle]

\* FStructDatablock::RecycleHandle
RecycleHandle(d, Handle) ==
    [d EXCEPT !.FreeHandles = Append(d.FreeHandles, Handle),
              !.Crashed = d.Crashed \/ Handle = InvalidHandle]

\* FStructDatablock::Dealloc: the buffer goes, and with it every handle.
Dealloc(d) ==
    IF d.Allocated
    THEN [d EXCEPT !.Allocated = FALSE, !.Mem = NoMem, !.NextHandle = InvalidHandle,
                   !.FreeHandles = <<>>]
    ELSE d

\* A GarbageCollect that frees the buffer whenever every issued slot was given back.
GarbageCollectWhenIdle(d) ==
    IF d.Allocated /\ d.NextHandle = Len(d.FreeHandles) THEN Dealloc(d) ELSE d

\* FStructDatablock::GarbageCollect
GarbageCollect(d) ==
    IF d.Allocated /\ (d.NextHandle = 0 \/ Len(d.FreeHandles) = d.Capacity)
    THEN Dealloc(d)
    ELSE d

----------------------------------------------------------------------------
(* FAffinityTablePage *)

\* FStructDatablock::InvalidHandle (32 bits) widened to the 64 bits of a DataHandle.
Widen32(h) == [hi |-> 0, lo |-> h]

\* A handle that leaves the datablock index out.
MakeHandleNoIndex(DatablockIndex, DatablockHandle) == [hi |-> 0, lo |-> DatablockHandle]

\* Index | Handle
MakeHandle(DatablockIndex, DatablockHandle) == [hi |-> DatablockIndex, lo |-> DatablockHandle]

\* GetHandleData: the two halves of a valid handle, and whether its checks fail.
GetHandleData(p, Handle) ==
    IF Handle # InvalidDataHandle
    THEN [Ok |-> TRUE, DatablockIndex |-> Handle.hi, DatablockHandle |-> Handle.lo,
          Crashed |-> (~(Handle.hi >= 0 /\ Handle.hi < Len(p.Datablocks)) \/ Handle.lo = InvalidHandle)]
    ELSE [Ok |-> FALSE, DatablockIndex |-> 0, DatablockHandle |-> 0, Crashed |-> FALSE]

RECURSIVE AppendFullBlocks(_, _)
AppendFullBlocks(Datablocks, FullBlocks) ==
    IF FullBlocks = 0 THEN Datablocks
    ELSE AppendFullBlocks(Append(Datablocks, NewDatablock(MaxDatablockCapacity, TRUE)), FullBlocks - 1)

\* AllocateBlocks(Capacity): full chunks, then one chunk for the remainder.
AllocateBlocks(p, Capacity) ==
    LET FullBlocks == Capacity \div MaxDatablockCapacity
        SmallBlock == Capacity % MaxDatablockCapacity
        full       == AppendFullBlocks(p.Datablocks, FullBlocks)
    IN  [p EXCEPT !.CurrentDatablock = Len(p.Datablocks),
                  !.Datablocks = IF SmallBlock # 0
                                 THEN Append(full, NewDatablock(SmallBlock, TRUE))
                                 ELSE full,
                  !.Crashed = p.Crashed \/ Capacity = 0]

\* The scan of FindAvailableHandle over every datablock, from index i (0-based).
RECURSIVE ScanDatablocks(_, _)

\* One iteration of the scan: r is what datablock i answered to NewHandle().
ScanDatablock(p, i, r) ==
    IF r.Handle # InvalidHandle
    THEN [Page |-> [p EXCEPT !.Datablocks[i + 1] = r.Datablock, !.CurrentDatablock = i],
          Handle |-> MakeHandle(i, r.Handle)]
    ELSE ScanDatablocks([p EXCEPT !.Datablocks[i + 1] = r.Datablock], i + 1)

ScanDatablocks(p, i) ==
    IF i >= Len(p.Datablocks) THEN [Page |-> p, Handle |-> InvalidDataHandle]
    ELSE ScanDatablock(p, i, DatablockNewHandle(p.Datablocks[i + 1]))

\* FindAvailableHandle once the current datablock has answered r to NewHandle().
HandleOfCurrentDatablock(p, r) ==
    IF r.Handle = InvalidHandle
    THEN ScanDatablocks([p EXCEPT !.Datablocks[p.CurrentDatablock + 1] = r.Datablock], 0)
    ELSE [Page |-> [p EXCEPT !.Datablocks[p.CurrentDatablock + 1] = r.Datablock],
          Handle |-> MakeHandle(p.CurrentDatablock, r.Handle)]

FindAvailableHandle(p) ==
    IF Len(p.Datablocks) = 0 THEN [Page |-> p, Handle |-> InvalidDataHandle]
    ELSE HandleOfCurrentDatablock(p, DatablockNewHandle(p.Datablocks[p.CurrentDatablock + 1]))

\* check(Handle != Invalid) on the page and handle r that a search returned.
CheckHandle(r, Invalid) ==
    [Page |-> [r.Page EXCEPT !.Crashed = @ \/ r.Handle = Invalid], Handle |-> r.Handle]

\* A NewHandle that never allocates, as a page in fixed mode.
AllocateAndFindNothing(r, FixedMode) == r

\* The retry of NewHandle after the first search returned r: only in dynamic mode, and
\* with one more full block.
AllocateAndFind(r, FixedMode) ==
    IF r.Handle = InvalidDataHandle /\ ~FixedMode
    THEN CheckHandle(FindAvailableHandle(AllocateBlocks(r.Page, MaxDatablockCapacity)),
                     InvalidDataHandle)
    ELSE r

\* FAffinityTablePage::NewHandle. Its last check compares the 64-bit handle with the
\* 32-bit FStructDatablock::InvalidHandle.
NewHandle(p) ==
    CheckHandle(AllocateAndFind(FindAvailableHandle(p), p.FixedMode), Widen32(InvalidHandle))

\* InRow->Add(Handle) for the page and handle r that NewHandle returned.
AddHandle(InRow, r) == [Page |-> r.Page, Row |-> Append(InRow, r.Handle)]

\* InRow->Add(NewHandle()), Count times: one iteration, or the first half of the
\* iterations followed by the rest (which keeps the evaluation of long loops shallow).
\* Nothing runs after a failed check.
RECURSIVE AppendNewHandles(_, _, _)
AppendNewHandles(p, InRow, Count) ==
    IF Count = 0 \/ p.Crashed THEN [Page |-> p, Row |-> InRow]
    ELSE IF Count = 1
         THEN AddHandle(InRow, NewHandle(p))
    ELSE LET h == AppendNewHandles(p, InRow, Count \div 2)
         IN  AppendNewHandles(h.Page, h.Row, Count - Count \div 2)

\* One entry per column i with lo <= i < hi, invalid for the delete-marked columns.
RECURSIVE AppendColumnHandles(_, _, _, _)
AppendColumnHandles(p, InRow, lo, hi) ==
    IF lo >= hi \/ p.Crashed THEN [Page |-> p, Row |-> InRow]
    ELSE IF hi = lo + 1
         THEN IF lo \in p.DeletedColumns
              THEN [Page |-> p, Row |-> Append(InRow, InvalidDataHandle)]
              ELSE AddHandle(InRow, NewHandle(p))
    ELSE LET mid == (lo + hi) \div 2
             h   == AppendColumnHandles(p, InRow, lo, mid)
         IN  AppendColumnHandles(h.Page, h.Row, mid, hi)

\* An AppendHandles that takes a handle for every column, retired or not.
AppendHandlesForEveryColumn(p, InRow, Count0) ==
    AppendNewHandles(p, InRow, IF Count0 = 0 THEN p.Columns ELSE Count0)

AppendHandles(p, InRow, Count0) ==
    LET Count == IF Count0 = 0 /\ p.DeletedColumns = {} THEN p.Columns ELSE Count0
    IN  IF Count # 0 THEN AppendNewHandles(p, InRow, Count)
        ELSE AppendColumnHandles(p, InRow, 0, p.Columns)

\* A reset row pointer.
NoRow == [Valid |-> FALSE, Handles |-> <<>>]

\* Rows.Add(NewRow) for the page and row r that AppendHandles returned.
AddNewRow(r) == [r.Page EXCEPT !.Rows = Append(@, [Valid |-> TRUE, Handles |-> r.Row])]

PageAddRow(p) == AddNewRow(AppendHandles(p, <<>>, 0))

\* Row i (1-based) after AppendHandles returned the page and the row r.
GrownRow(r, i) == [r.Page EXCEPT !.Rows[i].Handles = r.Row]

\* The loop of AddColumn over the rows, from row i (1-based).
RECURSIVE AddColumnToRows(_, _)
AddColumnToRows(p, i) ==
    IF i > Len(p.Rows) THEN p
    ELSE IF p.Rows[i].Valid
         THEN AddColumnToRows(GrownRow(AppendHandles(p, p.Rows[i].Handles, 1), i), i + 1)
         ELSE AddColumnToRows(p, i + 1)

PageAddColumn(p) == [AddColumnToRows(p, 1) EXCEPT !.Columns = @ + 1]

\* Recycles the handle through its owning datablock if it is a valid one.
RecycleDataHandle(p, Handle) ==
    LET hd == GetHandleData(p, Handle)
    IN  IF ~hd.Ok THEN p
        ELSE IF hd.Crashed THEN [p EXCEPT !.Crashed = TRUE]
        ELSE [p EXCEPT !.Datablocks[hd.DatablockIndex + 1] =
                           RecycleHandle(p.Datablocks[hd.DatablockIndex + 1], hd.DatablockHandle)]

\* The loop of DeleteRow over the handles lo..hi of the row (1-based).
RECURSIVE RecycleRowHandles(_, _, _, _)
RecycleRowHandles(p, Handles, lo, hi) ==
    IF lo > hi \/ p.Crashed THEN p
    ELSE IF lo = hi THEN RecycleDataHandle(p, Handles[lo])
    ELSE LET mid == (lo + hi) \div 2
         IN  RecycleRowHandles(RecycleRowHandles(p, Handles, lo, mid), Handles, mid + 1, hi)

\* A DeleteRow that gives no handle back.
PageDeleteRowKeepingHandles(p, RowIndex) ==
    IF ~(RowIndex >= 0 /\ RowIndex < Len(p.Rows)) THEN [p EXCEPT !.Crashed = TRUE]
    ELSE IF ~p.Rows[RowIndex + 1].Valid THEN [p EXCEPT !.Crashed = TRUE]
    ELSE [p EXCEPT !.Rows[RowIndex + 1] = NoRow]

\* GetRow checks the index; DeleteRow checks that the row is still there.
PageDeleteRow(p, RowIndex) ==
    IF ~(RowIndex >= 0 /\ RowIndex < Len(p.Rows)) THEN [p EXCEPT !.Crashed = TRUE]
    ELSE IF ~p.Rows[RowIndex + 1].Valid THEN [p EXCEPT !.Crashed = TRUE]
    ELSE [RecycleRowHandles(p, p.Rows[RowIndex + 1].Handles, 1, Len(p.Rows[RowIndex + 1].Handles))
              EXCEPT !.Rows[RowIndex + 1] = NoRow]

\* The loop of DeleteColumn over the rows, from row i (1-based). A recycled handle is
\* overwritten with the invalid one; a handle that is not recycled is the invalid one.
RECURSIVE DeleteColumnFromRows(_, _, _)
DeleteColumnFromRows(p, ColumnIndex, i) ==
    IF i > Len(p.Rows) THEN p
    ELSE IF ~p.Rows[i].Valid THEN DeleteColumnFromRows(p, ColumnIndex, i + 1)
    ELSE IF ~(ColumnIndex < Len(p.Rows[i].Handles)) THEN [p EXCEPT !.Crashed = TRUE]
    ELSE DeleteColumnFromRows(
             [RecycleDataHandle(p, p.Rows[i].Handles[ColumnIndex + 1])
                  EXCEPT !.Rows[i].Handles[ColumnIndex + 1] = InvalidDataHandle],
             ColumnIndex, i + 1)

PageDeleteColumn(p, ColumnIndex) ==
    IF ~(ColumnIndex >= 0 /\ ColumnIndex < p.Columns /\ ColumnIndex \notin p.DeletedColumns)
    THEN [p EXCEPT !.Crashed = TRUE]
    ELSE [DeleteColumnFromRows(p, ColumnIndex, 1) EXCEPT !.DeletedColumns = @ \cup {ColumnIndex}]

\* GetDatablockPtr(Handle): the record a valid handle names.
HandlePtr(p, Handle) ==
    LET hd == GetHandleData(p, Handle)
    IN  IF hd.Ok /\ ~hd.Crashed THEN [blk |-> hd.DatablockIndex, slot |-> hd.DatablockHandle]
        ELSE NullPtr

\* GetDatablockPtr(InRow, InColumn): the pointer, and whether a check failed on the way.
GetDatablockPtr(p, InRow, InColumn) ==
    IF ~(InRow >= 0 /\ InRow < Len(p.Rows)) THEN [Ptr |-> NullPtr, Crashed |-> TRUE]
    ELSE IF ~p.Rows[InRow + 1].Valid THEN [Ptr |-> NullPtr, Crashed |-> FALSE]
    ELSE IF ~(InColumn >= 0 /\ InColumn < Len(p.Rows[InRow + 1].Handles))
         THEN [Ptr |-> NullPtr, Crashed |-> TRUE]
    ELSE LET Handle == p.Rows[InRow + 1].Handles[InColumn + 1]
         IN  [Ptr |-> HandlePtr(p, Handle), Crashed |-> GetHandleData(p, Handle).Crashed]

\* The non-null pointers of the handles lo..hi of a row (1-based), in order.
RECURSIVE ValidPtrs(_, _, _, _)
ValidPtrs(p, Handles, lo, hi) ==
    IF lo > hi THEN <<>>
    ELSE IF lo = hi
         THEN LET Ptr == HandlePtr(p, Handles[lo])
              IN  IF Ptr # NullPtr THEN <<Ptr>> ELSE <<>>
    ELSE LET mid == (lo + hi) \div 2
         IN  ValidPtrs(p, Handles, lo, mid) \o ValidPtrs(p, Handles, mid + 1, hi)

GetDatablockPtrsForRow(p, InRow) ==
    IF ~(InRow >= 0 /\ InRow < Len(p.Rows)) THEN [Ptrs |-> <<>>, Crashed |-> TRUE]
    ELSE IF ~p.Rows[InRow + 1].Valid THEN [Ptrs |-> <<>>, Crashed |-> FALSE]
    ELSE [Ptrs |-> ValidPtrs(p, p.Rows[InRow + 1].Handles, 1, Len(p.Rows[InRow + 1].Handles)), Crashed |-> FALSE]

\* The record behind a non-null pointer.
ReadPtr(p, Ptr) == MemRead(p.Datablocks[Ptr.blk + 1], Ptr.slot)

WritePtr(p, Ptr, v) ==
    [p EXCEPT !.Datablocks[Ptr.blk + 1] = MemWrite(p.Datablocks[Ptr.blk + 1], Ptr.slot, v)]

RECURSIVE AddRows(_, _)
AddRows(p, n) == IF n = 0 THEN p ELSE AddRows(PageAddRow(p), n - 1)

\* if (const uint32 BlockCount = InRows * InColumns) AllocateBlocks(BlockCount)
AllocateIfAny(p, BlockCount) == IF BlockCount # 0 THEN AllocateBlocks(p, BlockCount) ELSE p

\* The constructor: memory for InRows * InColumns records if that is not zero, then the rows.
NewPage(InStruct, InRows, InColumns, InFixedMode) ==
    AddRows(AllocateIfAny([Struct |-> InStruct, Rows |-> <<>>, Datablocks |-> <<>>,
                           DeletedColumns |-> {}, Columns |-> InColumns,
                           FixedMode |-> InFixedMode, CurrentDatablock |-> 0,
                           Crashed |-> FALSE],
                          InRows * InColumns),
            InRows)

\* A failed check anywhere in the page or in one of its datablocks.
PageCrashed(p) == p.Crashed \/ \E i \in DOMAIN p.Datablocks : p.Datablocks[i].Crashed

----------------------------------------------------------------------------
(* UAffinityTable *)

\* The editor build: pages of the table allocate dynamically.
bFixedModeActive == FALSE

\* TMap::Add of a new key.
MapAdd(Map, Tag, Index) == [t \in (DOMAIN Map) \cup {Tag} |-> IF t = Tag THEN Index ELSE Map[t]]

\* TMap::Remove
MapRemove(Map, Tag) == [t \in (DOMAIN Map) \ {Tag} |-> Map[t]]

EmptyMap == [t \in {} |-> 0]

\* No editor is open on the table.
NoEditor == [Open |-> FALSE]

\* No datablock is under test.
NoDatablock == [Allocated |-> FALSE]

\* Nothing was saved yet.
NoArchive == [Saved |-> FALSE]

\* The asset fields of a table just constructed.
AssetInit ==
    /\ RowTags = <<>>
    /\ ColumnTags = <<>>
    /\ RowColors = EmptyMap
    /\ ColumnColors = EmptyMap
    /\ bHasLoadingErrors = FALSE
    /\ Archive = NoArchive

\* A lookup that climbs one level only.
GetIndexOneLevel(InMap, InTag, ExactMatch) ==
    IF ~IsValidTag(InTag) THEN InvalidIndex
    ELSE IF InTag \in DOMAIN InMap THEN InMap[InTag]
    ELSE IF ~ExactMatch /\ RequestDirectParent(InTag) \in DOMAIN InMap
         THEN InMap[RequestDirectParent(InTag)]
    ELSE InvalidIndex

RECURSIVE GetIndex(_, _, _)
GetIndex(InMap, InTag, ExactMatch) ==
    IF ~IsValidTag(InTag) THEN InvalidIndex
    ELSE IF InTag \in DOMAIN InMap THEN InMap[InTag]
    ELSE IF ~ExactMatch THEN GetIndex(InMap, RequestDirectParent(InTag), ExactMatch)
    ELSE InvalidIndex

\* GetPageForStruct: the position in Pages of the first page of the structure, 0 for none.
GetPageForStruct(pages, InScriptStruct) ==
    IF InScriptStruct # NullStruct /\ \E i \in DOMAIN pages : pages[i].Struct = InScriptStruct
    THEN CHOOSE i \in DOMAIN pages :
             /\ pages[i].Struct = InScriptStruct
             /\ \A j \in DOMAIN pages : pages[j].Struct = InScriptStruct => i <= j
    ELSE 0

\* GetCellData: the record pointer of the cell in the page of the structure.
GetCellData(pages, RowIndex, ColumnIndex, InScriptStruct) ==
    LET i == GetPageForStruct(pages, InScriptStruct)
    IN  IF i = 0 THEN [Ptr |-> NullPtr, Crashed |-> FALSE]
        ELSE GetDatablockPtr(pages[i], RowIndex, ColumnIndex)

\* GetRowData
GetRowData(pages, RowIndex, InScriptStruct) ==
    LET i == GetPageForStruct(pages, InScriptStruct)
    IN  IF i = 0 THEN [Ptrs |-> <<>>, Crashed |-> FALSE]
        ELSE GetDatablockPtrsForRow(pages[i], RowIndex)

\* The loop of Query over the requested structures, from position i.
RECURSIVE QueryStructs(_, _, _, _, _, _)
QueryStructs(pages, RowIndex, ColumnIndex, InStructureTypes, i, Out) ==
    IF i > Len(InStructureTypes) THEN [Out |-> Out, Crashed |-> FALSE]
    ELSE LET Data == GetCellData(pages, RowIndex, ColumnIndex, InStructureTypes[i])
         IN  IF Data.Crashed THEN [Out |-> Out, Crashed |-> TRUE]
             ELSE QueryStructs(pages, RowIndex, ColumnIndex, InStructureTypes, i + 1,
                               IF Data.Ptr # NullPtr
                               THEN Append(Out, [Struct |-> InStructureTypes[i], Ptr |-> Data.Ptr])
                               ELSE Out)

\* A Query that follows the inheritance link on file for the resolved cell and answers
\* with the record of the cell it inherits from.
QueryThroughLinks(rows, columns, structures, pages, RowTag, ColumnTag, ExactMatch, InStructureTypes, OutMemoryPtrs) ==
    LET RowIndex    == GetIndex(rows, RowTag, ExactMatch)
        ColumnIndex == GetIndex(columns, ColumnTag, ExactMatch)
        Near(map, t) == CHOOSE a \in DOMAIN map :
                            /\ Len(a) <= Len(t) /\ SubSeq(t, 1, Len(a)) = a
                            /\ \A b \in DOMAIN map :
                                   (Len(b) <= Len(t) /\ SubSeq(t, 1, Len(b)) = b) => Len(b) <= Len(a)
        Id     == Near(rows, RowTag) \o <<0>> \o Near(columns, ColumnTag)
        Linked == /\ Len(InStructureTypes) > 0
                  /\ InStructureTypes[1] \in DOMAIN InheritanceMaps
                  /\ Id \in DOMAIN InheritanceMaps[InStructureTypes[1]]
                  /\ InheritanceMaps[InStructureTypes[1]][Id].Row \in DOMAIN rows
                  /\ InheritanceMaps[InStructureTypes[1]][Id].Column \in DOMAIN columns
        Parent == InheritanceMaps[InStructureTypes[1]][Id]
    IN  IF Len(structures) = 0 \/ RowIndex = InvalidIndex \/ ColumnIndex = InvalidIndex
        THEN [Ret |-> FALSE, Out |-> OutMemoryPtrs, Crashed |-> FALSE]
        ELSE LET r == QueryStructs(pages,
                                   IF Linked THEN rows[Parent.Row] ELSE RowIndex,
                                   IF Linked THEN columns[Parent.Column] ELSE ColumnIndex,
                                   InStructureTypes, 1, OutMemoryPtrs)
             IN  [Ret |-> (Len(r.Out) = Len(InStructureTypes)), Out |-> r.Out, Crashed |-> r.Crashed]

\* UAffinityTable::Query on the table (rows, columns, structures, pages); OutMemoryPtrs
\* is the caller's list on entry.
Query(rows, columns, structures, pages, RowTag, ColumnTag, ExactMatch, InStructureTypes, OutMemoryPtrs) ==
    LET RowIndex    == GetIndex(rows, RowTag, ExactMatch)
        ColumnIndex == GetIndex(columns, ColumnTag, ExactMatch)
    IN  IF Len(structures) = 0 \/ RowIndex = InvalidIndex \/ ColumnIndex = InvalidIndex
        THEN [Ret |-> FALSE, Out |-> OutMemoryPtrs, Crashed |-> FALSE]
        ELSE LET r == QueryStructs(pages, RowIndex, ColumnIndex, InStructureTypes, 1, OutMemoryPtrs)
             IN  [Ret |-> (Len(r.Out) = Len(InStructureTypes)), Out |-> r.Out, Crashed |-> r.Crashed]

\* The loop of QueryForRow over the requested structures, from position i.
RECURSIVE QueryRowStructs(_, _, _, _, _)
QueryRowStructs(pages, RowIndex, InStructureTypes, i, Out) ==
    IF i > Len(InStructureTypes) THEN [Out |-> Out, Crashed |-> FALSE]
    ELSE IF GetRowData(pages, RowIndex, InStructureTypes[i]).Crashed
         THEN [Out |-> Out, Crashed |-> TRUE]
    ELSE QueryRowStructs(pages, RowIndex, InStructureTypes, i + 1,
                         IF Len(GetRowData(pages, RowIndex, InStructureTypes[i]).Ptrs) > 0
                         THEN Append(Out, [Struct |-> InStructureTypes[i],
                                           CellDataArray |->
                                               GetRowData(pages, RowIndex, InStructureTypes[i]).Ptrs])
                         ELSE Out)

\* What QueryForRow returns once the row is resolved and the loop has run.
QueryForRowResult(r, InStructureTypes) ==
    [Ret |-> (Len(r.Out) = Len(InStructureTypes)), Out |-> r.Out, Crashed |-> r.Crashed]

\* UAffinityTable::QueryForRow; OutMemoryPtrs is the caller's list on entry.
QueryForRow(rows, structures, pages, RowTag, ExactMatch, InStructureTypes, OutMemoryPtrs) ==
    IF Len(structures) = 0 \/ GetIndex(rows, RowTag, ExactMatch) = InvalidIndex
    THEN [Ret |-> FALSE, Out |-> OutMemoryPtrs, Crashed |-> FALSE]
    ELSE QueryForRowResult(QueryRowStructs(pages, GetIndex(rows, RowTag, ExactMatch),
                                           InStructureTypes, 1, OutMemoryPtrs),
                           InStructureTypes)

\* An AddRow without the Contains test.
AddRowUnchecked(rows, next, pages, InTag) ==
    IF IsValidTag(InTag)
    THEN [Map |-> [t \in (DOMAIN rows) \cup {InTag} |-> IF t = InTag THEN next ELSE rows[t]],
          Next |-> next + 1, Pages |-> [i \in DOMAIN pages |-> PageAddRow(pages[i])],
          Ret |-> TRUE]
    ELSE [Map |-> rows, Next |-> next, Pages |-> pages, Ret |-> FALSE]

\* UAffinityTable::AddRow: grow every page, index the tag, then recurse into the parent.
RECURSIVE AddRow(_, _, _, _)
\* An AddRow that recurses into the parent first and indexes the tag after it.
RECURSIVE AddRowAncestorsFirst(_, _, _, _)
AddRowAncestorsFirst(rows, next, pages, InTag) ==
    IF IsValidTag(InTag) /\ InTag \notin DOMAIN rows
    THEN LET r == AddRowAncestorsFirst(rows, next, pages, RequestDirectParent(InTag))
         IN  [Map |-> MapAdd(r.Map, InTag, r.Next), Next |-> r.Next + 1,
              Pages |-> [i \in DOMAIN r.Pages |-> PageAddRow(r.Pages[i])], Ret |-> TRUE]
    ELSE [Map |-> rows, Next |-> next, Pages |-> pages, Ret |-> FALSE]

AddRow(rows, next, pages, InTag) ==
    IF IsValidTag(InTag) /\ InTag \notin DOMAIN rows
    THEN LET r == AddRow(MapAdd(rows, InTag, next), next + 1,
                         [i \in DOMAIN pages |-> PageAddRow(pages[i])],
                         RequestDirectParent(InTag))
         IN  [r EXCEPT !.Ret = TRUE]
    ELSE [Map |-> rows, Next |-> next, Pages |-> pages, Ret |-> FALSE]

\* An AddColumn that numbers a column by the count of indexed columns.
AddColumnCounted(columns, next, pages, InTag) ==
    IF IsValidTag(InTag) /\ InTag \notin DOMAIN columns
    THEN [Map |-> MapAdd(columns, InTag, Cardinality(DOMAIN columns)),
          Next |-> next + 1, Pages |-> [i \in DOMAIN pages |-> PageAddColumn(pages[i])],
          Ret |-> TRUE]
    ELSE [Map |-> columns, Next |-> next, Pages |-> pages, Ret |-> FALSE]

RECURSIVE AddColumn(_, _, _, _)
AddColumn(columns, next, pages, InTag) ==
    IF IsValidTag(InTag) /\ InTag \notin DOMAIN columns
    THEN LET r == AddColumn(MapAdd(columns, InTag, next), next + 1,
                            [i \in DOMAIN pages |-> PageAddColumn(pages[i])],
                            RequestDirectParent(InTag))
         IN  [r EXCEPT !.Ret = TRUE]
    ELSE [Map |-> columns, Next |-> next, Pages |-> pages, Ret |-> FALSE]

\* A DeleteRow that takes the descendants of the tag along.
DeleteRowAndDescendants(rows, pages, InTag) ==
    IF IsValidTag(InTag) /\ InTag \in DOMAIN rows
    THEN [Map |-> [t \in { x \in DOMAIN rows :
                               ~(Len(InTag) <= Len(x) /\ SubSeq(x, 1, Len(InTag)) = InTag) }
                      |-> rows[t]],
          Pages |-> [i \in DOMAIN pages |-> PageDeleteRow(pages[i], rows[InTag])]]
    ELSE [Map |-> rows, Pages |-> pages]

\* UAffinityTable::DeleteRow
DeleteRow(rows, pages, InTag) ==
    IF IsValidTag(InTag) /\ InTag \in DOMAIN rows
    THEN [Map |-> MapRemove(rows, InTag),
          Pages |-> [i \in DOMAIN pages |-> PageDeleteRow(pages[i], rows[InTag])]]
    ELSE [Map |-> rows, Pages |-> pages]

\* A DeleteColumn that retires the page column and keeps the tag indexed.
DeleteColumnKeepingTag(columns, pages, InTag) ==
    IF IsValidTag(InTag) /\ InTag \in DOMAIN columns
    THEN [Map |-> columns,
          Pages |-> [i \in DOMAIN pages |-> PageDeleteColumn(pages[i], columns[InTag])]]
    ELSE [Map |-> columns, Pages |-> pages]

\* UAffinityTable::DeleteColumn
DeleteColumn(columns, pages, InTag) ==
    IF IsValidTag(InTag) /\ InTag \in DOMAIN columns
    THEN [Map |-> MapRemove(columns, InTag),
          Pages |-> [i \in DOMAIN pages |-> PageDeleteColumn(pages[i], columns[InTag])]]
    ELSE [Map |-> columns, Pages |-> pages]

\* The first loop of AllocatePageMemory: a page for every structure that has none.
RECURSIVE AddPages(_, _, _, _, _)
AddPages(pages, structures, i, InRows, InColumns) ==
    IF i > Len(structures) THEN pages
    ELSE AddPages(IF structures[i] # NullStruct /\ GetPageForStruct(pages, structures[i]) = 0
                  THEN Append(pages, NewPage(structures[i], InRows, InColumns, bFixedModeActive))
                  ELSE pages,
                  structures, i + 1, InRows, InColumns)

\* The second loop: the pages of structures no longer listed go.
RECURSIVE RemoveOrphanPages(_, _)
RemoveOrphanPages(pages, structures) ==
    IF pages = <<>> THEN <<>>
    ELSE (IF \E i \in DOMAIN structures : structures[i] = Head(pages).Struct
          THEN <<Head(pages)>> ELSE <<>>) \o RemoveOrphanPages(Tail(pages), structures)

AllocatePageMemory(pages, structures, InRows, InColumns) ==
    RemoveOrphanPages(AddPages(pages, structures, 1, InRows, InColumns), structures)

\* PostEditChangeProperty for an observed change of Structures: the dimensions of the
\* first existing page, or the number of registered rows and columns if there is none.
PostEditChangeProperty(rows, columns, pages, structures) ==
    LET RowCount    == IF Len(pages) > 0 THEN Len(pages[1].Rows) ELSE Cardinality(DOMAIN rows)
        ColumnCount == IF Len(pages) > 0 THEN pages[1].Columns ELSE Cardinality(DOMAIN columns)
    IN  AllocatePageMemory(pages, structures, RowCount, ColumnCount)

AnyPageCrashed(pages) == \E i \in DOMAIN pages : PageCrashed(pages[i])

----------------------------------------------------------------------------
(* The table in an editing session *)

\* Structure lists a caller may request in a query.
RequestLists == UNION { [1..n -> Schemas] : n \in 0..MaxStructures }

\* The tags the session queries with: row tags below a root, column tags above a leaf.
QueryRowTags == { t \in TagDictionary : Len(t) > 1 }

QueryColumnTags == { t \in TagDictionary : Len(t) < MaxDepth }

Op(name, tag, ret) == [op |-> name, tag |-> tag, ret |-> ret]

TableInit ==
    /\ Datablock = NoDatablock
    /\ AssetInit
    /\ Rows = EmptyMap
    /\ Columns = EmptyMap
    /\ NextRowIndex = 0
    /\ NextColumnIndex = 0
    /\ Structures = <<>>
    /\ Pages = <<>>
    /\ InheritanceMaps = EmptyMap
    /\ Editor = NoEditor
    /\ fatal = FALSE
    /\ lastOp = Op("Init", EmptyTag, FALSE)

\* What a call leaves behind: the new pages, or nothing but the abort if a check failed.
Commit(pages) ==
    IF AnyPageCrashed(pages) THEN fatal' = TRUE /\ Pages' = Pages
    ELSE fatal' = FALSE /\ Pages' = pages

AddRowCall(t) ==
    /\ ~fatal
    /\ LET r == AddRow(Rows, NextRowIndex, Pages, t)
       IN  /\ r.Next <= MaxIndex
           /\ Commit(r.Pages)
           /\ Rows' = IF AnyPageCrashed(r.Pages) THEN Rows ELSE r.Map
           /\ NextRowIndex' = IF AnyPageCrashed(r.Pages) THEN NextRowIndex ELSE r.Next
           /\ lastOp' = Op("AddRow", t, r.Ret)
    /\ UNCHANGED <<Datablock, assetVars, colorVars, InheritanceMaps, Editor, Columns, NextColumnIndex, Structures>>

AddColumnCall(t) ==
    /\ ~fatal
    /\ LET r == AddColumn(Columns, NextColumnIndex, Pages, t)
       IN  /\ r.Next <= MaxIndex
           /\ Commit(r.Pages)
           /\ Columns' = IF AnyPageCrashed(r.Pages) THEN Columns ELSE r.Map
           /\ NextColumnIndex' = IF AnyPageCrashed(r.Pages) THEN NextColumnIndex ELSE r.Next
           /\ lastOp' = Op("AddColumn", t, r.Ret)
    /\ UNCHANGED <<Datablock, assetVars, colorVars, InheritanceMaps, Editor, Rows, NextRowIndex, Structures>>

DeleteRowCall(t) ==
    /\ ~fatal
    /\ LET r == DeleteRow(Rows, Pages, t)
       IN  /\ Commit(r.Pages)
           /\ Rows' = IF AnyPageCrashed(r.Pages) THEN Rows ELSE r.Map
           /\ RowColors' = IF AnyPageCrashed(r.Pages) \/ t \notin DOMAIN Rows THEN RowColors
                            ELSE MapRemove(RowColors, t)
           /\ lastOp' = Op("DeleteRow", t, IsValidTag(t) /\ t \in DOMAIN Rows)
    /\ UNCHANGED <<Datablock, assetVars, ColumnColors, InheritanceMaps, Editor, Columns,
                   NextRowIndex, NextColumnIndex, Structures>>

DeleteColumnCall(t) ==
    /\ ~fatal
    /\ LET r == DeleteColumn(Columns, Pages, t)
       IN  /\ Commit(r.Pages)
           /\ Columns' = IF AnyPageCrashed(r.Pages) THEN Columns ELSE r.Map
           /\ ColumnColors' = IF AnyPageCrashed(r.Pages) \/ t \notin DOMAIN Columns
                               THEN ColumnColors
                               ELSE MapRemove(ColumnColors, t)
           /\ lastOp' = Op("DeleteColumn", t, IsValidTag(t) /\ t \in DOMAIN Columns)
    /\ UNCHANGED <<Datablock, assetVars, RowColors, InheritanceMaps, Editor, Rows,
                   NextRowIndex, NextColumnIndex, Structures>>

\* The property panel changes Structures: a value set, a removal or a clear.
StructuresEdit(structures) ==
    /\ ~fatal
    /\ structures # Structures
    /\ Structures' = structures
    /\ Commit(PostEditChangeProperty(Rows, Columns, Pages, structures))
    /\ lastOp' = Op("PostEditChangeProperty", EmptyTag, FALSE)
    /\ UNCHANGED <<Datablock, assetVars, colorVars, InheritanceMaps, Editor, Rows, Columns, NextRowIndex, NextColumnIndex>>

StructuresValueSet ==
    \E i \in 1..Len(Structures), s \in Schemas \cup {NullStruct} :
        StructuresEdit([Structures EXCEPT ![i] = s])

StructuresArrayRemove ==
    \E i \in 1..Len(Structures) :
        StructuresEdit([j \in 1..(Len(Structures) - 1) |->
                            IF j < i THEN Structures[j] ELSE Structures[j + 1]])

StructuresArrayClear == StructuresEdit(<<>>)

\* A new entry of the array is null; the change is not one the table observes.
StructuresArrayAdd ==
    /\ ~fatal
    /\ Structures' = Append(Structures, NullStruct)
    /\ lastOp' = Op("ArrayAdd", EmptyTag, FALSE)
    /\ UNCHANGED <<Datablock, assetVars, colorVars, InheritanceMaps, Editor, Rows, Columns, NextRowIndex, NextColumnIndex, Pages, fatal>>

QueryCall(RowTag, ColumnTag, ExactMatch, InStructureTypes) ==
    /\ ~fatal
    /\ LET r == Query(Rows, Columns, Structures, Pages, RowTag, ColumnTag, ExactMatch,
                      InStructureTypes, <<>>)
       IN  /\ fatal' = r.Crashed
           /\ lastOp' = [op |-> "Query", tag |-> <<RowTag, ColumnTag>>, ret |-> r.Ret,
                         exact |-> ExactMatch, structs |-> InStructureTypes, out |-> r.Out]
    /\ UNCHANGED <<Datablock, assetVars, colorVars, InheritanceMaps, Editor, Rows, Columns, NextRowIndex, NextColumnIndex, Structures, Pages>>

\* What a QueryForRow leaves behind: the call and what it returned.
CommitQueryForRow(r, RowTag, ExactMatch, InStructureTypes) ==
    /\ fatal' = r.Crashed
    /\ lastOp' = [op |-> "QueryForRow", tag |-> RowTag, ret |-> r.Ret,
                  exact |-> ExactMatch, structs |-> InStructureTypes, out |-> r.Out]

QueryForRowCall(RowTag, ExactMatch, InStructureTypes) ==
    /\ ~fatal
    /\ CommitQueryForRow(QueryForRow(Rows, Structures, Pages, RowTag, ExactMatch,
                                     InStructureTypes, <<>>),
                         RowTag, ExactMatch, InStructureTypes)
    /\ UNCHANGED <<Datablock, assetVars, colorVars, InheritanceMaps, Editor, Rows, Columns,
                   NextRowIndex, NextColumnIndex, Structures, Pages>>

TableNext ==
    \/ \E t \in AnyTag : AddRowCall(t)
    \/ \E t \in AnyTag : AddColumnCall(t)
    \/ \E t \in AnyTag : DeleteRowCall(t)
    \/ \E t \in AnyTag : DeleteColumnCall(t)
    \/ Len(Structures) < MaxStructures /\ StructuresArrayAdd
    \/ StructuresValueSet
    \/ StructuresArrayRemove
    \/ StructuresArrayClear
    \/ \E r \in QueryRowTags, c \in QueryColumnTags, e \in BOOLEAN, l \in RequestLists :
          QueryCall(r, c, e, l)
    \/ \E r \in QueryRowTags, e \in BOOLEAN, l \in RequestLists : QueryForRowCall(r, e, l)

Spec == TableInit /\ [][TableNext]_vars

----------------------------------------------------------------------------
(* A page on its own: constructed with given dimensions, then edited *)

\* A column count that takes a page of MaxPageRows rows past one datablock.
BigColumns == MaxDatablockCapacity \div MaxPageRows + 1

PageColumnCounts == (0..MaxPageColumns) \cup {BigColumns}

\* The cells the session writes to.
WriteRows == 0..(MaxPageRows - 1)

WriteColumns == {0}

PageInit ==
    /\ Datablock = NoDatablock
    /\ AssetInit
    /\ Rows = EmptyMap
    /\ Columns = EmptyMap
    /\ NextRowIndex = 0
    /\ NextColumnIndex = 0
    /\ Structures = <<1>>
    /\ InheritanceMaps = EmptyMap
    /\ Editor = NoEditor
    /\ \E InRows \in 0..MaxPageRows, InColumns \in PageColumnCounts, InFixedMode \in BOOLEAN :
           /\ Pages = <<NewPage(1, InRows, InColumns, InFixedMode)>>
           /\ lastOp = Op("NewPage", <<InRows, InColumns>>, InFixedMode)
    /\ fatal = PageCrashed(Pages[1])

\* What a call on the page leaves behind.
CommitPage(p, name, arg) ==
    /\ fatal' = PageCrashed(p)
    /\ Pages' = IF PageCrashed(p) THEN Pages ELSE <<p>>
    /\ lastOp' = Op(name, arg, ~PageCrashed(p))
    /\ UNCHANGED <<Datablock, assetVars, colorVars, InheritanceMaps, Editor, Rows, Columns, NextRowIndex, NextColumnIndex, Structures>>

PageAddRowCall ==
    /\ ~fatal
    /\ Len(Pages[1].Rows) < MaxPageRows + MaxPageGrowth
    /\ CommitPage(PageAddRow(Pages[1]), "PageAddRow", <<>>)

PageAddColumnCall ==
    /\ ~fatal
    /\ Pages[1].Columns < MaxPageColumns + MaxPageGrowth
    /\ CommitPage(PageAddColumn(Pages[1]), "PageAddColumn", <<>>)

\* The table deletes the rows and columns of indexed tags: live ones.
PageDeleteRowCall(RowIndex) ==
    /\ ~fatal
    /\ RowIndex < Len(Pages[1].Rows)
    /\ Pages[1].Rows[RowIndex + 1].Valid
    /\ CommitPage(PageDeleteRow(Pages[1], RowIndex), "PageDeleteRow", <<RowIndex>>)

PageDeleteColumnCall(ColumnIndex) ==
    /\ ~fatal
    /\ ColumnIndex < Pages[1].Columns
    /\ ColumnIndex \notin Pages[1].DeletedColumns
    /\ CommitPage(PageDeleteColumn(Pages[1], ColumnIndex), "PageDeleteColumn", <<ColumnIndex>>)

\* A caller writes a value through the pointer GetDatablockPtr gave it.
PageWriteCall(InRow, InColumn, v) ==
    /\ ~fatal
    /\ InRow < Len(Pages[1].Rows)
    /\ Pages[1].Rows[InRow + 1].Valid
    /\ InColumn < Len(Pages[1].Rows[InRow + 1].Handles)
    /\ LET r == GetDatablockPtr(Pages[1], InRow, InColumn)
       IN  /\ ~r.Crashed
           /\ r.Ptr # NullPtr
           /\ CommitPage(WritePtr(Pages[1], r.Ptr, v), "Write", <<InRow, InColumn>>)

PageNext ==
    \/ PageAddRowCall
    \/ PageAddColumnCall
    \/ \E i \in 0..(MaxPageRows + MaxPageGrowth - 1) : PageDeleteRowCall(i)
    \/ \E j \in 0..(MaxPageColumns + MaxPageGrowth - 1) : PageDeleteColumnCall(j)
    \/ \E i \in WriteRows, j \in WriteColumns, v \in Values : PageWriteCall(i, j, v)

SpecPage == PageInit /\ [][PageNext]_vars

----------------------------------------------------------------------------
(* A datablock on its own: constructed with a desired capacity, then used *)

\* Capacities asked of the constructor: small ones, and one past the maximum.
PoolCapacities == (0..MaxPoolCapacity) \cup {MaxDatablockCapacity + 1}

\* The handles a caller holds: issued, and not given back.
LiveHandles(d) ==
    IF d.Allocated
    THEN { h \in 0..(d.NextHandle - 1) : \A k \in DOMAIN d.FreeHandles : d.FreeHandles[k] # h }
    ELSE {}

PoolInit ==
    /\ AssetInit
    /\ Rows = EmptyMap
    /\ Columns = EmptyMap
    /\ NextRowIndex = 0
    /\ NextColumnIndex = 0
    /\ Structures = <<1>>
    /\ Pages = <<>>
    /\ InheritanceMaps = EmptyMap
    /\ Editor = NoEditor
    /\ \E DesiredCapacity \in PoolCapacities, AllocNow \in BOOLEAN :
           /\ Datablock = NewDatablock(DesiredCapacity, AllocNow)
           /\ lastOp = Op("NewDatablock", <<DesiredCapacity>>, AllocNow)
    /\ fatal = Datablock.Crashed

\* What a call on the datablock leaves behind.
CommitDatablock(d, op) ==
    /\ fatal' = d.Crashed
    /\ Datablock' = IF d.Crashed THEN Datablock ELSE d
    /\ lastOp' = op
    /\ UNCHANGED <<assetVars, colorVars, InheritanceMaps, Editor, Rows, Columns, NextRowIndex,
                   NextColumnIndex, Structures, Pages>>

\* NewHandle, once it returned r; held is what the record of the handle held before.
NewHandleReturns(r, held) ==
    CommitDatablock(r.Datablock, [op |-> "NewHandle", tag |-> <<>>, ret |-> r.Handle, held |-> held])

NewHandleCall ==
    /\ ~fatal
    /\ NewHandleReturns(DatablockNewHandle(Datablock),
                        IF Datablock.Allocated /\ Datablock.NextHandle = Datablock.Capacity
                           /\ Len(Datablock.FreeHandles) > 0
                        THEN MemRead(Datablock, Datablock.FreeHandles[1])
                        ELSE DefaultValue)

\* A caller gives back a handle it holds.
RecycleHandleCall(Handle) ==
    /\ ~fatal
    /\ Handle \in LiveHandles(Datablock)
    /\ CommitDatablock(RecycleHandle(Datablock, Handle), Op("RecycleHandle", <<Handle>>, TRUE))

\* A caller writes the record of a handle it holds, through GetMemoryBlock.
WriteCall(Handle, v) ==
    /\ ~fatal
    /\ Handle \in LiveHandles(Datablock)
    /\ CommitDatablock(MemWrite(Datablock, Handle, v), Op("Write", <<Handle>>, TRUE))

GarbageCollectCall ==
    /\ ~fatal
    /\ CommitDatablock(GarbageCollect(Datablock),
                       Op("GarbageCollect", <<>>, ~GarbageCollect(Datablock).Allocated))

PoolNext ==
    \/ NewHandleCall
    \/ \E h \in 0..(MaxPoolCapacity - 1) : RecycleHandleCall(h)
    \/ \E h \in 0..(MaxPoolCapacity - 1), v \in Values : WriteCall(h, v)
    \/ GarbageCollectCall

SpecPool == PoolInit /\ [][PoolNext]_vars

----------------------------------------------------------------------------
(* FAffinityTableNode: the row and column trees of the editor *)

\* A tree is the sequence of its nodes in the order they were created; a node is its tag
\* and the index it cached when created. The root, of the invalid tag, is not listed.

\* The order a node keeps its children in; over whole tags it is the pre-order of a tree.
TagLess(a, b) ==
    \E i \in 1..Len(b) :
        /\ i <= Len(a) + 1
        /\ \A j \in 1..(i - 1) : a[j] = b[j]
        /\ (i = Len(a) + 1 \/ a[i] < b[i])

RECURSIVE SortTags(_)
SortTags(S) ==
    IF S = {} THEN <<>>
    ELSE LET m == CHOOSE x \in S : \A y \in S \ {x} : TagLess(x, y)
         IN  <<m>> \o SortTags(S \ {m})

NodeTags(Root) == { Root[i].Tag : i \in DOMAIN Root }

GetTagIndex(Root, Tag) ==
    LET i == CHOOSE k \in DOMAIN Root : Root[k].Tag = Tag
    IN  Root[i].TagIndex

\* The parent of a node below the root is a node of a valid tag.
HasValidParent(Tag) == IsValidTag(RequestDirectParent(Tag))

IsBelow(Tag, d) == Len(d) > Len(Tag) /\ SubSeq(d, 1, Len(Tag)) = Tag

\* IAffinityTableNodeWalker::WalkChildren: the nodes below Tag that the walk visits with
\* Visit true, in pre-order; the walk does not descend below a node whose visit is false.
\* Visit is given as the set of the tags it is true of.
WalkChildren(Root, Tag, Visit) ==
    SortTags({ d \in NodeTags(Root) :
                 /\ IsBelow(Tag, d)
                 /\ \A n \in (Len(Tag) + 1)..Len(d) : SubSeq(d, 1, n) \in Visit })

\* FGameplayTag::GetGameplayTagParents: the tag, then its ancestors up to the root tag.
GetGameplayTagParents(Tag) == [i \in 1..Len(Tag) |-> SubSeq(Tag, 1, Len(Tag) - i + 1)]

\* FAffinityTableNode::Insert from the root: the queue is popped from its tail, and every
\* tag that has no node yet gets one, top-down, with the index the table has for the tag
\* (OnIndexForTag looks it up in the map of the rows, or of the columns). The result is
\* the new nodes, in order.
Insert(Root, InOutTagQueue, OnIndexForTag) ==
    LET TopDown == [i \in 1..Len(InOutTagQueue) |-> InOutTagQueue[Len(InOutTagQueue) - i + 1]]
        New     == SelectSeq(TopDown, LAMBDA t : t \notin NodeTags(Root))
    IN  [i \in 1..Len(New) |-> [Tag |-> New[i], TagIndex |-> GetIndex(OnIndexForTag, New[i], TRUE)]]

----------------------------------------------------------------------------
(* UAffinityTable: inheritance links *)

CellTags(Row, Column) == [Row |-> Row, Column |-> Column]

\* CellTags(): the link of a cell known to be unlinked.
NoCellTags == CellTags(EmptyTag, EmptyTag)

\* "Row|Column": 0 stands for the bar, which no tag name holds.
StringIDForCell(InCell) == InCell.Row \o <<0>> \o InCell.Column

\* InheritanceMaps.FindOrAdd(InStruct->GetFName())
FindOrAddMap(maps, InStruct) ==
    IF InStruct \in DOMAIN maps THEN maps ELSE MapAdd(maps, InStruct, EmptyMap)

SetInheritanceLink(maps, InStruct, Child, Parent) ==
    LET m == FindOrAddMap(maps, InStruct)
    IN  [m EXCEPT ![InStruct] = MapAdd(m[InStruct], StringIDForCell(Child), Parent)]

TryGetInheritanceLink(maps, InStruct, Child) ==
    LET m == FindOrAddMap(maps, InStruct)
    IN  IF StringIDForCell(Child) \in DOMAIN m[InStruct]
        THEN [Ret |-> TRUE, OutParent |-> m[InStruct][StringIDForCell(Child)], Maps |-> m]
        ELSE [Ret |-> FALSE, OutParent |-> NoCellTags, Maps |-> m]

\* A removal that forgets the cell.
RemoveInheritanceLinkErasing(maps, InStruct, InCell) ==
    [FindOrAddMap(maps, InStruct) EXCEPT ![InStruct] = MapRemove(@, StringIDForCell(InCell))]

RemoveInheritanceLink(maps, InStruct, InCell) ==
    SetInheritanceLink(maps, InStruct, InCell, NoCellTags)

\* AreCellsIdentical: two cells of a registered structure hold equal records.
AreCellsIdentical(structures, pages, Struct, CellA, CellB) ==
    IF Struct # NullStruct /\ \E i \in DOMAIN structures : structures[i] = Struct
    THEN LET DataA == GetCellData(pages, CellA.Row, CellA.Column, Struct)
             DataB == GetCellData(pages, CellB.Row, CellB.Column, Struct)
             p     == pages[GetPageForStruct(pages, Struct)]
         IN  [Ret |-> /\ ~DataA.Crashed /\ ~DataB.Crashed
                      /\ DataA.Ptr # NullPtr /\ DataB.Ptr # NullPtr
                      /\ ReadPtr(p, DataA.Ptr) = ReadPtr(p, DataB.Ptr),
              Crashed |-> DataA.Crashed \/ DataB.Crashed]
    ELSE [Ret |-> FALSE, Crashed |-> FALSE]

----------------------------------------------------------------------------
(* UAffinityTable: saving and loading *)

FileFormatVersion == 4

\* The oldest format LoadTable migrates from.
OldestMigratedFormat == 3

\* The keys of a map in the order of the tags.
KeysInTagOrder(Map) == SortTags(DOMAIN Map)

\* PreSaveTable: the map sorted by index value, then its keys.
KeysByIndex(Map) ==
    [i \in 1..Cardinality(DOMAIN Map) |->
        CHOOSE t \in DOMAIN Map : Cardinality({ u \in DOMAIN Map : Map[u] < Map[t] }) = i - 1]

\* The order SerializePage visits the cells in: the rows in their order, and for each
\* the columns in theirs.
CellOrder(RowOrder, ColumnOrder) ==
    [k \in 1..(Len(RowOrder) * Len(ColumnOrder)) |->
        <<RowOrder[(k - 1) \div Len(ColumnOrder) + 1],
          ColumnOrder[((k - 1) % Len(ColumnOrder)) + 1]>>]

\* SerializePage when saving: the records of the cells that have one, in order.
SavePage(p, rows, columns, Cells) ==
    LET Data(k) == GetDatablockPtr(p, rows[Cells[k][1]], columns[Cells[k][2]])
        Kept    == SelectSeq([k \in DOMAIN Cells |-> k], LAMBDA k : Data(k).Ptr # NullPtr)
    IN  [Data    |-> [j \in DOMAIN Kept |-> ReadPtr(p, Data(Kept[j]).Ptr)],
         Crashed |-> \E k \in DOMAIN Cells : Data(k).Crashed]

\* The links of a structure as SaveTable writes them: cell id, then the parent's tags.
SaveLinks(maps, StructName) ==
    IF StructName \in DOMAIN maps
    THEN [k \in 1..Cardinality(DOMAIN maps[StructName]) |->
            [Key    |-> SortTags(DOMAIN maps[StructName])[k],
             Parent |-> maps[StructName][SortTags(DOMAIN maps[StructName])[k]]]]
    ELSE <<>>

\* Serialize when saving: the tag arrays and Structures as properties of the object,
\* then SaveTable: the format, the page of every structure that has one, the colors,
\* and the links of the same structures.
SaveTable(t) ==
    LET StructsToSave == SelectSeq(t.Structures,
                                   LAMBDA s : s # NullStruct /\ GetPageForStruct(t.Pages, s) # 0)
        Cells == CellOrder(KeysByIndex(t.Rows), KeysByIndex(t.Columns))
        Page(s) == SavePage(t.Pages[GetPageForStruct(t.Pages, s)], t.Rows, t.Columns, Cells)
    IN  [Ar |-> [Saved |-> TRUE,
                 Format |-> FileFormatVersion,
                 Structures |-> t.Structures,
                 RowTags |-> KeysByIndex(t.Rows),
                 ColumnTags |-> KeysByIndex(t.Columns),
                 Pages |-> [i \in DOMAIN StructsToSave |->
                               [StructName |-> StructsToSave[i],
                                Data |-> Page(StructsToSave[i]).Data]],
                 RowColors |-> t.RowColors,
                 ColumnColors |-> t.ColumnColors,
                 Links |-> [i \in DOMAIN StructsToSave |->
                               [StructName |-> StructsToSave[i],
                                Links |-> SaveLinks(t.InheritanceMaps, StructsToSave[i])]]],
         Crashed |-> \E i \in DOMAIN StructsToSave : Page(StructsToSave[i]).Crashed]

ClearTable(t) ==
    [t EXCEPT !.Pages = <<>>, !.Rows = EmptyMap, !.Columns = EmptyMap,
              !.RowColors = EmptyMap, !.ColumnColors = EmptyMap,
              !.InheritanceMaps = EmptyMap, !.NextRowIndex = 0, !.NextColumnIndex = 0]

\* One loop of GenerateRowAndColumnMaps, from position i of the tag array; g is the map,
\* the next index and whether a tag came twice.
RECURSIVE GenerateMap(_, _, _)
\* A loop that spends an index on a tag that came before.
RECURSIVE GenerateMapCountingDuplicates(_, _, _)
GenerateMapCountingDuplicates(Tags, i, g) ==
    IF i > Len(Tags) THEN g
    ELSE GenerateMapCountingDuplicates(Tags, i + 1,
                     IF Tags[i] \in DOMAIN g.Map THEN [g EXCEPT !.Errors = TRUE, !.Next = @ + 1]
                     ELSE [g EXCEPT !.Map = MapAdd(@, Tags[i], g.Next), !.Next = @ + 1])

GenerateMap(Tags, i, g) ==
    IF i > Len(Tags) THEN g
    ELSE GenerateMap(Tags, i + 1,
                     IF Tags[i] \in DOMAIN g.Map THEN [g EXCEPT !.Errors = TRUE]
                     ELSE [g EXCEPT !.Map = MapAdd(@, Tags[i], g.Next), !.Next = @ + 1])

\* GenerateRowAndColumnMaps, given what its two loops computed.
GenerateRowAndColumnMaps(t, r, c) ==
    [t EXCEPT !.Crashed = @ \/ t.NextRowIndex # 0 \/ DOMAIN t.Rows # {}
                            \/ t.NextColumnIndex # 0 \/ DOMAIN t.Columns # {},
              !.Rows = r.Map, !.NextRowIndex = r.Next,
              !.Columns = c.Map, !.NextColumnIndex = c.Next,
              !.bHasLoadingErrors = @ \/ r.Errors \/ c.Errors]

\* SerializePage when loading: the cells that have a record take the items of the
\* archive in order.
RECURSIVE LoadPage(_, _, _, _, _, _)
LoadPage(p, rows, columns, Cells, k, Items) ==
    IF k > Len(Cells) \/ p.Crashed THEN p
    ELSE LET Data == GetDatablockPtr(p, rows[Cells[k][1]], columns[Cells[k][2]])
         IN  IF Data.Crashed THEN [p EXCEPT !.Crashed = TRUE]
             ELSE IF Data.Ptr = NullPtr \/ Items = <<>>
                  THEN LoadPage(p, rows, columns, Cells, k + 1, Items)
             ELSE LoadPage(WritePtr(p, Data.Ptr, Head(Items)), rows, columns, Cells, k + 1,
                           Tail(Items))

\* The loop of LoadTable over the pages of the archive, from page i. A page of a
\* structure the table does not list ends the load.
RECURSIVE LoadPages(_, _, _)
LoadPages(t, a, i) ==
    IF i > Len(a.Pages) \/ t.Crashed \/ AnyPageCrashed(t.Pages) THEN t
    ELSE IF ~\E k \in DOMAIN t.Structures :
                  t.Structures[k] # NullStruct /\ t.Structures[k] = a.Pages[i].StructName
         THEN [t EXCEPT !.bHasLoadingErrors = TRUE, !.Returned = TRUE]
    ELSE LoadPages(
             [t EXCEPT !.Pages = Append(@,
                  LoadPage(NewPage(a.Pages[i].StructName, Cardinality(DOMAIN t.Rows),
                                   Cardinality(DOMAIN t.Columns), bFixedModeActive),
                           t.Rows, t.Columns,
                           CellOrder(KeysByIndex(t.Rows), KeysByIndex(t.Columns)),
                           1, a.Pages[i].Data))],
             a, i + 1)

\* The links of one structure of the archive, from link i.
RECURSIVE LoadLinks(_, _, _)
LoadLinks(Map, Links, i) ==
    IF i > Len(Links) THEN Map
    ELSE LoadLinks([x \in (DOMAIN Map) \cup {Links[i].Key} |->
                       IF x = Links[i].Key THEN Links[i].Parent ELSE Map[x]],
                   Links, i + 1)

\* The inheritance graph of the archive, from structure i: a structure without links
\* gets no map.
RECURSIVE LoadInheritanceMaps(_, _, _)
LoadInheritanceMaps(maps, a, i) ==
    IF i > Len(a.Links) THEN maps
    ELSE LoadInheritanceMaps(
             IF Len(a.Links[i].Links) = 0 THEN maps
             ELSE [s \in (DOMAIN maps) \cup {a.Links[i].StructName} |->
                      IF s = a.Links[i].StructName
                      THEN LoadLinks(FindOrAddMap(maps, s)[s], a.Links[i].Links, 1)
                      ELSE maps[s]],
             a, i + 1)

\* The walk of FindOrphans up the ancestors of a tag: it ends well at the root or at a
\* tag known to be whole, and badly at an ancestor that is not among the tags.
RECURSIVE BrokenUpstream(_, _, _)
\* A walk that looks at the parent of a tag only.
BrokenDirectly(ParentTag, Tails, Tags) ==
    IsValidTag(ParentTag) /\ ~\E k \in DOMAIN Tags : Tags[k] = ParentTag

BrokenUpstream(ParentTag, Tails, Tags) ==
    IF ~IsValidTag(ParentTag) \/ ParentTag \in Tails THEN FALSE
    ELSE IF \E k \in DOMAIN Tags : Tags[k] = ParentTag
         THEN BrokenUpstream(RequestDirectParent(ParentTag), Tails, Tags)
    ELSE TRUE

\* FindOrphans from position i: the orphans, each once, in the order they were found.
RECURSIVE FindOrphans(_, _, _, _)
FindOrphans(Tags, i, Tails, Orphans) ==
    IF i > Len(Tags) THEN Orphans
    ELSE IF BrokenUpstream(RequestDirectParent(Tags[i]), Tails, Tags)
         THEN FindOrphans(Tags, i + 1, Tails,
                          IF \E k \in DOMAIN Orphans : Orphans[k] = Tags[i] THEN Orphans
                          ELSE Append(Orphans, Tags[i]))
    ELSE FindOrphans(Tags, i + 1, Tails \cup {Tags[i]}, Orphans)

\* DeleteRow and DeleteColumn of the table at work.
DeleteRowOf(t, InTag) ==
    [t EXCEPT !.Rows = DeleteRow(t.Rows, t.Pages, InTag).Map,
              !.Pages = DeleteRow(t.Rows, t.Pages, InTag).Pages,
              !.RowColors = IF InTag \in DOMAIN t.Rows THEN MapRemove(@, InTag) ELSE @]

DeleteColumnOf(t, InTag) ==
    [t EXCEPT !.Columns = DeleteColumn(t.Columns, t.Pages, InTag).Map,
              !.Pages = DeleteColumn(t.Columns, t.Pages, InTag).Pages,
              !.ColumnColors = IF InTag \in DOMAIN t.Columns THEN MapRemove(@, InTag) ELSE @]

RECURSIVE DeleteOrphans(_, _, _, _)
DeleteOrphans(t, Orphans, i, AreRows) ==
    IF i > Len(Orphans) THEN t
    ELSE DeleteOrphans(IF AreRows THEN DeleteRowOf(t, Orphans[i])
                       ELSE DeleteColumnOf(t, Orphans[i]),
                       Orphans, i + 1, AreRows)

\* EnsureTagHierarchy: the tags of the arrays that miss an ancestor are deleted.
EnsureTagHierarchy(t) ==
    [DeleteOrphans(DeleteOrphans(t, FindOrphans(t.RowTags, 1, {}, <<>>), 1, TRUE),
                   FindOrphans(t.ColumnTags, 1, {}, <<>>), 1, FALSE)
        EXCEPT !.bHasLoadingErrors = @ \/ FindOrphans(t.RowTags, 1, {}, <<>>) # <<>>
                                       \/ FindOrphans(t.ColumnTags, 1, {}, <<>>) # <<>>]

\* The editor-only data of the archive: the colors and the inheritance graph.
LoadEditorData(t, a) ==
    IF t.Returned \/ t.Crashed \/ AnyPageCrashed(t.Pages) THEN t
    ELSE EnsureTagHierarchy([t EXCEPT !.RowColors = a.RowColors,
                                      !.ColumnColors = a.ColumnColors,
                                      !.InheritanceMaps = LoadInheritanceMaps(@, a, 1)])

\* The runtime data: the maps of the tags, then the pages unless a tag came twice.
LoadRuntimeData(t, a) ==
    IF t.bHasLoadingErrors THEN [t EXCEPT !.Returned = TRUE]
    ELSE LoadPages(t, a, 1)

\* LoadTable_V3: the layout of format 3 has no footprint, which the archive of the model
\* does not hold either.
LoadTable_V3(t, a) ==
    LoadEditorData(
        LoadRuntimeData(GenerateRowAndColumnMaps(t, GenerateMap(t.RowTags, 1, [Map |-> EmptyMap, Next |-> 0, Errors |-> FALSE]),
                                                 GenerateMap(t.ColumnTags, 1, [Map |-> EmptyMap, Next |-> 0, Errors |-> FALSE])),
                        a),
        a)

\* A load that takes every older format for format 3.
LoadOlderFormatAsV3(t, a) == LoadTable_V3(ClearTable(t), a)

\* LoadTable on a table whose properties (the tag arrays, Structures) are those of the
\* archive already. Formats older than 3 are not read. The current format is read as
\* format 3 is, with the footprint of every page besides, which only raises a warning.
LoadTable(t, a) ==
    IF a.Format < FileFormatVersion /\ a.Format # OldestMigratedFormat THEN ClearTable(t)
    ELSE LoadTable_V3(ClearTable(t), a)

\* Serialize when loading: the properties of the object, then LoadTable.
Serialize(t, a) ==
    LoadTable([t EXCEPT !.RowTags = a.RowTags, !.ColumnTags = a.ColumnTags,
                        !.Structures = a.Structures, !.Returned = FALSE],
              a)

\* UAffinityTable::SetTagColor
SetTagColor(Colors, InTag, Color) ==
    [t \in (DOMAIN Colors) \cup {InTag} |-> IF t = InTag THEN Color ELSE Colors[t]]

----------------------------------------------------------------------------
(* FAffinityTableEditor *)

\* The editor at work is a record: its trees (RowRoot, ColumnRoot), its CellTable (the
\* cell of a row node and a column node, named by the two tags), the structure of its
\* ActivePageView, and the table it edits (InheritanceMaps, Structures, Pages).  Crashed
\* says that a check failed; nothing runs after that.

\* An invalid TWeakPtr<Cell>.
NoCell == <<>>

GetCell(e, Row, Column) ==
    IF <<Row, Column>> \in DOMAIN e.CellTable THEN <<Row, Column>> ELSE NoCell

InheritsData(e, c) == e.CellTable[c].InheritedCell # NoCell

AsCellTags(c) == CellTags(c[1], c[2])

Abort(e) == [e EXCEPT !.Crashed = TRUE]

\* A LinkCells that stores the link the wrong way round: from the parent to the child.
LinkCellsStoredBackwards(e, Child, Parent) ==
    IF e.Crashed THEN e
    ELSE IF Child = NoCell \/ Parent = NoCell \/ e.ActivePageView = NullStruct THEN Abort(e)
    ELSE [e EXCEPT !.CellTable[Child].InheritedCell = Parent,
                   !.InheritanceMaps = SetInheritanceLink(e.InheritanceMaps, e.ActivePageView,
                                                          AsCellTags(Parent), AsCellTags(Child))]

LinkCells(e, Child, Parent) ==
    IF e.Crashed THEN e
    ELSE IF Child = NoCell \/ Parent = NoCell \/ e.ActivePageView = NullStruct THEN Abort(e)
    ELSE [e EXCEPT !.CellTable[Child].InheritedCell = Parent,
                   !.InheritanceMaps = SetInheritanceLink(e.InheritanceMaps, e.ActivePageView,
                                                          AsCellTags(Child), AsCellTags(Parent))]

UnlinkCell(e, InCell) ==
    IF e.Crashed THEN e
    ELSE IF InCell = NoCell \/ e.ActivePageView = NullStruct THEN Abort(e)
    ELSE [e EXCEPT !.CellTable[InCell].InheritedCell = NoCell,
                   !.InheritanceMaps = RemoveInheritanceLink(e.InheritanceMaps, e.ActivePageView,
                                                             AsCellTags(InCell))]

\* FFindNodeWalker from the root of a tree: a node of the tag is found.
FindNode(Root, Tag) == Tag \in NodeTags(Root) \cup {EmptyTag}

\* An assignment that links a cell to the cell next to it, inheriting or not.
AssignInheritanceToNeighbour(e, InCell, ColumnStream, RestoreFromAsset) ==
    IF e.Crashed THEN e
    ELSE IF InCell = NoCell \/ e.ActivePageView = NullStruct THEN Abort(e)
    ELSE
    LET Row    == InCell[1]
        Column == InCell[2]
        Link   == TryGetInheritanceLink(e.InheritanceMaps, e.ActivePageView, AsCellTags(InCell))
        e1     == IF RestoreFromAsset THEN [e EXCEPT !.InheritanceMaps = Link.Maps] ELSE e
        OnFile == RestoreFromAsset /\ Link.Ret
        AssetInheritance == Link.OutParent
        FoundCell == GetCell(e1, AssetInheritance.Row, AssetInheritance.Column)
        ParentRow ==
            IF ColumnStream
            THEN (IF HasValidParent(Column) THEN Row ELSE RequestDirectParent(Row))
            ELSE (IF HasValidParent(Row) THEN RequestDirectParent(Row) ELSE Row)
        ParentColumn ==
            IF ColumnStream
            THEN (IF HasValidParent(Column) THEN RequestDirectParent(Column) ELSE Column)
            ELSE (IF HasValidParent(Row) THEN Column ELSE RequestDirectParent(Column))
        ParentCell == GetCell(e1, ParentRow, ParentColumn)
    IN  IF OnFile /\ ~IsValidTag(AssetInheritance.Row) /\ ~IsValidTag(AssetInheritance.Column)
        THEN [e1 EXCEPT !.CellTable[InCell].InheritedCell = NoCell]
        ELSE IF OnFile /\ ~(FindNode(e1.RowRoot, AssetInheritance.Row)
                            /\ FindNode(e1.ColumnRoot, AssetInheritance.Column))
        THEN Abort(e1)
        ELSE IF OnFile /\ FoundCell # NoCell
        THEN [e1 EXCEPT !.CellTable[InCell].InheritedCell = FoundCell]
        ELSE IF ~HasValidParent(Row) /\ ~HasValidParent(Column) THEN UnlinkCell(e1, InCell)
        ELSE IF ParentCell = NoCell THEN Abort(e1)
        ELSE LinkCells(e1, InCell, ParentCell)

AssignInheritance(e, InCell, ColumnStream, RestoreFromAsset) ==
    IF e.Crashed THEN e
    ELSE IF InCell = NoCell \/ e.ActivePageView = NullStruct THEN Abort(e)
    ELSE
    LET Row    == InCell[1]
        Column == InCell[2]
        Link   == TryGetInheritanceLink(e.InheritanceMaps, e.ActivePageView, AsCellTags(InCell))
        e1     == IF RestoreFromAsset THEN [e EXCEPT !.InheritanceMaps = Link.Maps] ELSE e
        OnFile == RestoreFromAsset /\ Link.Ret
        AssetInheritance == Link.OutParent
        FoundCell == GetCell(e1, AssetInheritance.Row, AssetInheritance.Column)
        ParentRow ==
            IF ColumnStream
            THEN (IF HasValidParent(Column) THEN Row ELSE RequestDirectParent(Row))
            ELSE (IF HasValidParent(Row) THEN RequestDirectParent(Row) ELSE Row)
        ParentColumn ==
            IF ColumnStream
            THEN (IF HasValidParent(Column) THEN RequestDirectParent(Column) ELSE Column)
            ELSE (IF HasValidParent(Row) THEN Column ELSE RequestDirectParent(Column))
        ParentCell == GetCell(e1, ParentRow, ParentColumn)
    IN  IF OnFile /\ ~IsValidTag(AssetInheritance.Row) /\ ~IsValidTag(AssetInheritance.Column)
        THEN [e1 EXCEPT !.CellTable[InCell].InheritedCell = NoCell]
        ELSE IF OnFile /\ ~(FindNode(e1.RowRoot, AssetInheritance.Row)
                            /\ FindNode(e1.ColumnRoot, AssetInheritance.Column))
        THEN Abort(e1)
        ELSE IF OnFile /\ FoundCell # NoCell
        THEN [e1 EXCEPT !.CellTable[InCell].InheritedCell = FoundCell]
        ELSE IF ~HasValidParent(Row) /\ ~HasValidParent(Column) THEN UnlinkCell(e1, InCell)
        ELSE IF ParentCell = NoCell THEN Abort(e1)
        ELSE LinkCells(e1, InCell,
                       IF InheritsData(e1, ParentCell)
                       THEN e1.CellTable[ParentCell].InheritedCell ELSE ParentCell)

RECURSIVE AssignInheritanceToCells(_, _, _, _)
AssignInheritanceToCells(e, Cells, i, ColumnStream) ==
    IF i > Len(Cells) \/ e.Crashed THEN e
    ELSE AssignInheritanceToCells(AssignInheritance(e, Cells[i], ColumnStream, TRUE),
                                  Cells, i + 1, ColumnStream)

\* The data inheritance step of UpdateCells on one cell: a cell that inherits takes the
\* record of the cell it inherits from, unless the two are identical already.
UpdateCellData(e, ThisCell) ==
    IF e.Crashed \/ ThisCell = NoCell THEN Abort(e)
    ELSE IF ~InheritsData(e, ThisCell) THEN e
    ELSE
    LET From == e.CellTable[e.CellTable[ThisCell].InheritedCell].TableCell
        To   == e.CellTable[ThisCell].TableCell
        Same == AreCellsIdentical(e.Structures, e.Pages, e.ActivePageView, From, To)
        DataFrom == GetCellData(e.Pages, From.Row, From.Column, e.ActivePageView)
        DataTo   == GetCellData(e.Pages, To.Row, To.Column, e.ActivePageView)
        i == GetPageForStruct(e.Pages, e.ActivePageView)
    IN  IF Same.Crashed THEN Abort(e)
        ELSE IF Same.Ret THEN e
        ELSE IF DataFrom.Crashed \/ DataTo.Crashed
                \/ DataFrom.Ptr = NullPtr \/ DataTo.Ptr = NullPtr THEN Abort(e)
        ELSE [e EXCEPT !.Pages[i] = WritePtr(@, DataTo.Ptr, ReadPtr(@, DataFrom.Ptr))]

RECURSIVE UpdateCellList(_, _, _)
UpdateCellList(e, CellsToUpdate, i) ==
    IF i > Len(CellsToUpdate) \/ e.Crashed THEN e
    ELSE UpdateCellList(UpdateCellData(e, CellsToUpdate[i]), CellsToUpdate, i + 1)

\* UpdateCells(CellDataInheritance | CellDescription, CellsToUpdate)
UpdateCells(e, CellsToUpdate) ==
    IF e.ActivePageView # NullStruct THEN UpdateCellList(e, CellsToUpdate, 1) ELSE e

\* FFillColumnDownWalker below a row: a cell is taken if it inherits from a cell of
\* another row, or if forced.
FillColumnDown(e, Row, Column, Force) ==
    LET Visit == { r \in NodeTags(e.RowRoot) :
                      LET c == e.CellTable[<<r, Column>>]
                      IN  Force \/ (c.InheritedCell # NoCell /\ c.InheritedCell[1] # r) }
        Taken == WalkChildren(e.RowRoot, Row, Visit)
    IN  [i \in DOMAIN Taken |-> <<Taken[i], Column>>]

RECURSIVE RightColumns(_, _, _, _, _)
RightColumns(e, Row, Taken, i, Force) ==
    IF i > Len(Taken) THEN <<>>
    ELSE <<<<Row, Taken[i]>>>> \o FillColumnDown(e, Row, Taken[i], Force)
         \o RightColumns(e, Row, Taken, i + 1, Force)

\* GatherInheritedCells: the cells that follow this one, down its column and then over
\* the columns below its column.
GatherInheritedCells(e, InCell, Force) ==
    IF InheritsData(e, InCell) THEN <<>>
    ELSE LET Row    == InCell[1]
             Column == InCell[2]
             Visit == { c \in NodeTags(e.ColumnRoot) :
                          LET Inherited == e.CellTable[<<Row, c>>].InheritedCell
                          IN  (Inherited # NoCell /\ (Inherited = InCell \/ Inherited[2] # c))
                              \/ Force }
         IN  FillColumnDown(e, Row, Column, Force)
             \o RightColumns(e, Row, WalkChildren(e.ColumnRoot, Column, Visit), 1, Force)

RECURSIVE LinkCellsTo(_, _, _, _)
LinkCellsTo(e, Cells, i, Parent) ==
    IF i > Len(Cells) \/ e.Crashed THEN e
    ELSE LinkCellsTo(LinkCells(e, Cells[i], Parent), Cells, i + 1, Parent)

PropagateInheritance(e, InCell, Force) ==
    IF e.Crashed \/ InCell = NoCell THEN Abort(e)
    ELSE LET NewInheritedCells == GatherInheritedCells(e, InCell, Force)
         IN  UpdateCells(LinkCellsTo(e, NewInheritedCells, 1, InCell),
                         Append(NewInheritedCells, InCell))

OnCellValueChanged(e, UpdatedCell) ==
    IF e.Crashed \/ UpdatedCell = NoCell THEN Abort(e)
    ELSE IF InheritsData(e, UpdatedCell)
         THEN PropagateInheritance(UnlinkCell(e, UpdatedCell), UpdatedCell, FALSE)
         ELSE UpdateCells(e, GatherInheritedCells(e, UpdatedCell, FALSE))

\* LockCell ("Make Independent"): a cell that inherits stops inheriting and hands its
\* record down.
LockCell(e, InCell) ==
    IF e.Crashed \/ InCell = NoCell THEN Abort(e)
    ELSE IF InheritsData(e, InCell)
         THEN PropagateInheritance(UnlinkCell(e, InCell), InCell, FALSE)
         ELSE e

CopyCellData(e, SourceCell) ==
    IF SourceCell # NoCell THEN [e EXCEPT !.ReferenceCell = SourceCell] ELSE e

\* Property::CopyCompleteValue over the visible properties. A record has one property,
\* numbered 1.
CopyVisibleValues(Dest, Source, VisibleProperties) ==
    IF 1 \in VisibleProperties THEN Source ELSE Dest

\* The loop of PasteCellData over the target cells: the record is written into the
\* target, then the editor is told of the change. The cell copied from is skipped.
RECURSIVE PasteIntoCells(_, _, _, _, _, _)
\* A paste that strips the inheritance of a target first and writes the record then.
RECURSIVE PasteIntoStrippedCells(_, _, _, _, _, _)
PasteIntoStrippedCells(e, SourcePtr, TargetCells, i, VisiblePropertiesOnly, VisibleProperties) ==
    IF i > Len(TargetCells) \/ e.Crashed THEN e
    ELSE IF TargetCells[i] = NoCell THEN Abort(e)
    ELSE
    LET To       == e.CellTable[TargetCells[i]].TableCell
        DestData == GetCellData(e.Pages, To.Row, To.Column, e.ActivePageView)
        p        == GetPageForStruct(e.Pages, e.ActivePageView)
        e1       == OnCellValueChanged(e, TargetCells[i])
    IN  IF DestData.Crashed \/ DestData.Ptr = NullPtr \/ e1.Crashed THEN Abort(e)
        ELSE PasteIntoStrippedCells(
                 [e1 EXCEPT !.Pages[p] =
                     WritePtr(@, DestData.Ptr,
                              IF VisiblePropertiesOnly
                              THEN CopyVisibleValues(ReadPtr(@, DestData.Ptr),
                                                     ReadPtr(@, SourcePtr),
                                                     VisibleProperties)
                              ELSE ReadPtr(@, SourcePtr))],
                 SourcePtr, TargetCells, i + 1, VisiblePropertiesOnly, VisibleProperties)

PasteIntoCells(e, SourcePtr, TargetCells, i, VisiblePropertiesOnly, VisibleProperties) ==
    IF i > Len(TargetCells) \/ e.Crashed THEN e
    ELSE IF TargetCells[i] = NoCell THEN Abort(e)
    ELSE IF TargetCells[i] = e.ReferenceCell
    THEN PasteIntoCells(e, SourcePtr, TargetCells, i + 1, VisiblePropertiesOnly,
                        VisibleProperties)
    ELSE
    LET To       == e.CellTable[TargetCells[i]].TableCell
        DestData == GetCellData(e.Pages, To.Row, To.Column, e.ActivePageView)
        p        == GetPageForStruct(e.Pages, e.ActivePageView)
    IN  IF DestData.Crashed \/ DestData.Ptr = NullPtr THEN Abort(e)
        ELSE PasteIntoCells(
                 OnCellValueChanged(
                     [e EXCEPT !.Pages[p] =
                         WritePtr(@, DestData.Ptr,
                                  IF VisiblePropertiesOnly
                                  THEN CopyVisibleValues(ReadPtr(@, DestData.Ptr),
                                                         ReadPtr(@, SourcePtr),
                                                         VisibleProperties)
                                  ELSE ReadPtr(@, SourcePtr))],
                     TargetCells[i]),
                 SourcePtr, TargetCells, i + 1, VisiblePropertiesOnly, VisibleProperties)

\* PasteCellData. VisibleProperties are the properties the page view shows.
PasteCellData(e, TargetCells, VisiblePropertiesOnly, VisibleProperties) ==
    IF e.Crashed \/ e.ReferenceCell = NoCell THEN Abort(e)
    ELSE IF e.ActivePageView = NullStruct
            \/ (VisiblePropertiesOnly /\ VisibleProperties = {}) THEN e
    ELSE
    LET From       == e.CellTable[e.ReferenceCell].TableCell
        SourceData == GetCellData(e.Pages, From.Row, From.Column, e.ActivePageView)
    IN  IF SourceData.Crashed \/ SourceData.Ptr = NullPtr THEN Abort(e)
        ELSE PasteIntoCells(e, SourceData.Ptr, TargetCells, 1, VisiblePropertiesOnly,
                            VisibleProperties)

\* AcquireInheritance ("Link Left", "Link Up"): an independent cell takes a parent by the
\* rule of AssignInheritance, and the cells that followed it follow its parent.
AcquireInheritance(e, InCell, ColumnStream) ==
    IF e.Crashed \/ InCell = NoCell THEN Abort(e)
    ELSE IF InheritsData(e, InCell) THEN e
    ELSE LET InheritedCells == GatherInheritedCells(e, InCell, FALSE)
             e1 == AssignInheritance(e, InCell, ColumnStream, FALSE)
         IN  UpdateCells(LinkCellsTo(e1, InheritedCells, 1,
                                     e1.CellTable[InCell].InheritedCell),
                         Append(InheritedCells, InCell))

NewCell(RowNode, ColumnNode) ==
    [TableCell |-> [Row |-> RowNode.TagIndex, Column |-> ColumnNode.TagIndex],
     InheritedCell |-> NoCell]

\* The cells of CellTable and those of NewCells, a sequence of <<row node, column node>>.
AddCells(Table, NewCells) ==
    LET Keys == { <<NewCells[k][1].Tag, NewCells[k][2].Tag>> : k \in DOMAIN NewCells }
    IN  [c \in (DOMAIN Table) \cup Keys |->
            IF c \in Keys
            THEN LET k == CHOOSE k \in DOMAIN NewCells :
                              c = <<NewCells[k][1].Tag, NewCells[k][2].Tag>>
                 IN  NewCell(NewCells[k][1], NewCells[k][2])
            ELSE Table[c]]

\* The node of a tag in a tree.
NodeOf(Root, Tag) == Root[CHOOSE k \in DOMAIN Root : Root[k].Tag = Tag]

\* The loops that end InsertRow and InsertColumn: every new cell is assigned its
\* inheritance, in the order the cells were made in, then the new cells take their data.
AssignNewCells(e, NewCells, ColumnStream) ==
    UpdateCells(AssignInheritanceToCells(e, NewCells, 1, ColumnStream), NewCells)

\* The new nodes of InsertRow: for the tag and its missing ancestors.
NewRowNodes(e, rows, Tag) == Insert(e.RowRoot, GetGameplayTagParents(Tag), rows)

\* The new cells of InsertRow, as <<row node, column node>>: a cell in every column for
\* each new row.
NewRowCells(e, rows, Tag) ==
    LET New        == NewRowNodes(e, rows, Tag)
        AllColumns == WalkChildren(e.ColumnRoot, EmptyTag, NodeTags(e.ColumnRoot))
        n          == Len(AllColumns)
    IN  [k \in 1..(Len(New) * n) |->
            <<New[(k - 1) \div n + 1], NodeOf(e.ColumnRoot, AllColumns[((k - 1) % n) + 1])>>]

\* The tags of new cells.
CellKeys(NewCells) == [k \in DOMAIN NewCells |-> <<NewCells[k][1].Tag, NewCells[k][2].Tag>>]

\* The editor with the rows and cells of InsertRow in place, before they are assigned.
WithNewRows(e, rows, Tag) ==
    [e EXCEPT !.RowRoot = @ \o NewRowNodes(e, rows, Tag),
              !.CellTable = AddCells(@, NewRowCells(e, rows, Tag))]

\* An InsertRow that assigns the new cells as InsertColumn does, the column parent first.
InsertRowColumnFirst(e, rows, Tag) ==
    AssignNewCells(WithNewRows(e, rows, Tag), CellKeys(NewRowCells(e, rows, Tag)), TRUE)

\* InsertRow: nodes for the tag and its missing ancestors, a cell in every column for
\* each of them, then the inheritance of the new cells and their data.
InsertRow(e, rows, Tag) ==
    AssignNewCells(WithNewRows(e, rows, Tag), CellKeys(NewRowCells(e, rows, Tag)), FALSE)

NewColumnNodes(e, columns, Tag) == Insert(e.ColumnRoot, GetGameplayTagParents(Tag), columns)

\* The new cells of InsertColumn: a new column gets its cells in the order of the rows
\* of CellTable.
NewColumnCells(e, columns, Tag) ==
    LET New == NewColumnNodes(e, columns, Tag)
        n   == Len(e.RowRoot)
    IN  [k \in 1..(Len(New) * n) |->
            <<e.RowRoot[((k - 1) % n) + 1], New[(k - 1) \div n + 1]>>]

WithNewColumns(e, columns, Tag) ==
    [e EXCEPT !.ColumnRoot = @ \o NewColumnNodes(e, columns, Tag),
              !.CellTable = AddCells(@, NewColumnCells(e, columns, Tag))]

\* InsertColumn: the same for a column.
InsertColumn(e, columns, Tag) ==
    AssignNewCells(WithNewColumns(e, columns, Tag),
                   CellKeys(NewColumnCells(e, columns, Tag)), TRUE)

\* The nodes the DeleteWalker of DeleteRow and DeleteColumn visits: the node, then the
\* nodes below it, in pre-order.
DeleteWalk(Root, Tag) == <<Tag>> \o WalkChildren(Root, Tag, NodeTags(Root))

\* What the DeleteWalker of DeleteRow does to the asset: DeleteRow of every tag visited.
RECURSIVE DeleteWalkedRows(_, _, _, _)
DeleteWalkedRows(rows, pages, Walked, i) ==
    IF i > Len(Walked) THEN [Map |-> rows, Pages |-> pages]
    ELSE LET r == DeleteRow(rows, pages, Walked[i])
         IN  DeleteWalkedRows(r.Map, r.Pages, Walked, i + 1)

RECURSIVE DeleteWalkedColumns(_, _, _, _)
DeleteWalkedColumns(columns, pages, Walked, i) ==
    IF i > Len(Walked) THEN [Map |-> columns, Pages |-> pages]
    ELSE LET r == DeleteColumn(columns, pages, Walked[i])
         IN  DeleteWalkedColumns(r.Map, r.Pages, Walked, i + 1)

\* The editor without the cells of Gone: their rows or columns have left CellTable, and
\* a weak pointer to one of them is invalid.
WithoutCells(e, Gone) ==
    [e EXCEPT !.CellTable = [c \in (DOMAIN @) \ Gone |->
                                IF @[c].InheritedCell \in Gone
                                THEN [@[c] EXCEPT !.InheritedCell = NoCell] ELSE @[c]],
              !.ReferenceCell = IF @ \in Gone THEN NoCell ELSE @]

\* A DeleteRow of the editor that takes from the asset the tag of the node alone.
EditorDeleteRowOfNodeAlone(e, rows, Row) ==
    LET Walked == DeleteWalk(e.RowRoot, Row)
        Tags   == { Walked[i] : i \in DOMAIN Walked }
        r      == DeleteRow(rows, e.Pages, Row)
        e1     == WithoutCells(e, { c \in DOMAIN e.CellTable : c[1] \in Tags })
    IN  [Map |-> r.Map,
         e   |-> [e1 EXCEPT !.RowRoot = SelectSeq(@, LAMBDA n : n.Tag \notin Tags),
                            !.Pages = r.Pages]]

\* FAffinityTableEditor::DeleteRow: the node and the nodes below it leave CellTable and
\* the asset, and the node is unlinked from the tree.
EditorDeleteRow(e, rows, Row) ==
    LET Walked == DeleteWalk(e.RowRoot, Row)
        Tags   == { Walked[i] : i \in DOMAIN Walked }
        r      == DeleteWalkedRows(rows, e.Pages, Walked, 1)
        e1     == WithoutCells(e, { c \in DOMAIN e.CellTable : c[1] \in Tags })
    IN  [Map |-> r.Map,
         e   |-> [e1 EXCEPT !.RowRoot = SelectSeq(@, LAMBDA n : n.Tag \notin Tags),
                            !.Pages = r.Pages]]

\* FAffinityTableEditor::DeleteColumn
EditorDeleteColumn(e, columns, Column) ==
    LET Walked == DeleteWalk(e.ColumnRoot, Column)
        Tags   == { Walked[i] : i \in DOMAIN Walked }
        r      == DeleteWalkedColumns(columns, e.Pages, Walked, 1)
        e1     == WithoutCells(e, { c \in DOMAIN e.CellTable : c[2] \in Tags })
    IN  [Map |-> r.Map,
         e   |-> [e1 EXCEPT !.ColumnRoot = SelectSeq(@, LAMBDA n : n.Tag \notin Tags),
                            !.Pages = r.Pages]]

----------------------------------------------------------------------------
(* The editor open on a table *)

\* The first structure of the table that is not null: the page the editor shows first.
FirstPageView(structures) ==
    IF \E i \in DOMAIN structures : structures[i] # NullStruct
    THEN structures[CHOOSE i \in DOMAIN structures :
                        /\ structures[i] # NullStruct
                        /\ \A j \in 1..(i - 1) : structures[j] = NullStruct]
    ELSE NullStruct

\* InitAffinityTableEditor on a table without rows and columns.
InitAffinityTableEditor(structures) ==
    [Open |-> TRUE, RowRoot |-> <<>>, ColumnRoot |-> <<>>, CellTable |-> EmptyMap,
     ActivePageView |-> FirstPageView(structures), ReferenceCell |-> NoCell]

\* The editor and the table it edits, as the editor's functions take them.
EditorAtWork ==
    [RowRoot |-> Editor.RowRoot, ColumnRoot |-> Editor.ColumnRoot,
     CellTable |-> Editor.CellTable, ActivePageView |-> Editor.ActivePageView,
     ReferenceCell |-> Editor.ReferenceCell,
     InheritanceMaps |-> InheritanceMaps, Structures |-> Structures, Pages |-> Pages,
     Crashed |-> FALSE]

\* The tags game code queries with: the most specific ones.
DeepTags == { t \in TagDictionary : Len(t) = MaxDepth }

EditorInit ==
    /\ Datablock = NoDatablock
    /\ AssetInit
    /\ Rows = EmptyMap
    /\ Columns = EmptyMap
    /\ NextRowIndex = 0
    /\ NextColumnIndex = 0
    /\ Structures = <<1>>
    /\ Pages = PostEditChangeProperty(EmptyMap, EmptyMap, <<>>, <<1>>)
    /\ InheritanceMaps = EmptyMap
    /\ Editor = InitAffinityTableEditor(<<1>>)
    /\ fatal = FALSE
    /\ lastOp = Op("InitAffinityTableEditor", EmptyTag, TRUE)

\* What a handler of the editor leaves behind.
CommitEditor(e, op) ==
    LET Failed == e.Crashed \/ AnyPageCrashed(e.Pages)
    IN  /\ fatal' = Failed
        /\ lastOp' = op
        /\ Pages' = IF Failed THEN Pages ELSE e.Pages
        /\ InheritanceMaps' = IF Failed THEN InheritanceMaps ELSE e.InheritanceMaps
        /\ Editor' = IF Failed THEN Editor
                     ELSE [Open |-> TRUE, RowRoot |-> e.RowRoot, ColumnRoot |-> e.ColumnRoot,
                           CellTable |-> e.CellTable, ActivePageView |-> e.ActivePageView,
                           ReferenceCell |-> e.ReferenceCell]
        /\ UNCHANGED <<Structures, Datablock, assetVars, colorVars>>

\* OnAddTag: the tag picked in the dialog becomes a row or a column, unless it is one.
\* IndexCap bounds the indices the session issues.
OnAddTagWithin(SelectedTag, SelectedTagIsRow, IndexCap) ==
    /\ ~fatal
    /\ Editor.Open
    /\ IF GetIndex(IF SelectedTagIsRow THEN Rows ELSE Columns, SelectedTag, TRUE) # InvalidIndex
       THEN /\ lastOp' = Op("OnAddTag", <<SelectedTag, SelectedTagIsRow>>, FALSE)
            /\ UNCHANGED <<Rows, Columns, NextRowIndex, NextColumnIndex, Structures, Pages,
                           InheritanceMaps, Editor, fatal, Datablock, assetVars, colorVars>>
       ELSE IF SelectedTagIsRow
       THEN LET r == AddRow(Rows, NextRowIndex, Pages, SelectedTag)
                e == InsertRow([EditorAtWork EXCEPT !.Pages = r.Pages], r.Map, SelectedTag)
                Failed == e.Crashed \/ AnyPageCrashed(e.Pages)
            IN  /\ r.Next <= IndexCap
                /\ CommitEditor(e, Op("OnAddTag", <<SelectedTag, SelectedTagIsRow>>, TRUE))
                /\ Rows' = IF Failed THEN Rows ELSE r.Map
                /\ NextRowIndex' = IF Failed THEN NextRowIndex ELSE r.Next
                /\ UNCHANGED <<Columns, NextColumnIndex>>
       ELSE LET r == AddColumn(Columns, NextColumnIndex, Pages, SelectedTag)
                e == InsertColumn([EditorAtWork EXCEPT !.Pages = r.Pages], r.Map, SelectedTag)
                Failed == e.Crashed \/ AnyPageCrashed(e.Pages)
            IN  /\ r.Next <= IndexCap
                /\ CommitEditor(e, Op("OnAddTag", <<SelectedTag, SelectedTagIsRow>>, TRUE))
                /\ Columns' = IF Failed THEN Columns ELSE r.Map
                /\ NextColumnIndex' = IF Failed THEN NextColumnIndex ELSE r.Next
                /\ UNCHANGED <<Rows, NextRowIndex>>

OnAddTag(SelectedTag, SelectedTagIsRow) == OnAddTagWithin(SelectedTag, SelectedTagIsRow, MaxIndex)

\* The user changes the record of the selected cell in the details panel, which holds
\* the pointer of the cell's record; the editor is told of the change.
OnCellPropertyValueChanged(c, v) ==
    /\ ~fatal
    /\ Editor.Open
    /\ c \in DOMAIN Editor.CellTable
    /\ LET TableCell == Editor.CellTable[c].TableCell
           StructData == GetCellData(Pages, TableCell.Row, TableCell.Column,
                                     Editor.ActivePageView)
           i == GetPageForStruct(Pages, Editor.ActivePageView)
           e == IF StructData.Crashed \/ StructData.Ptr = NullPtr THEN Abort(EditorAtWork)
                ELSE OnCellValueChanged(
                         [EditorAtWork EXCEPT !.Pages[i] = WritePtr(@, StructData.Ptr, v)], c)
       IN  CommitEditor(e, [op |-> "OnCellPropertyValueChanged", tag |-> c, ret |-> TRUE,
                            value |-> v])
    /\ UNCHANGED <<Rows, Columns, NextRowIndex, NextColumnIndex>>

\* The entries of the context menu of the cells (OnContextMenu). An entry runs when the
\* user picks it, which its CanExecute condition has to allow.

MakeIndependentEntry(SelectedCell) ==
    /\ ~fatal
    /\ Editor.Open
    /\ SelectedCell \in DOMAIN Editor.CellTable
    /\ InheritsData(EditorAtWork, SelectedCell)
    /\ CommitEditor(LockCell(EditorAtWork, SelectedCell), Op("LockCell", SelectedCell, TRUE))
    /\ UNCHANGED <<Rows, Columns, NextRowIndex, NextColumnIndex>>

\* "We can inherit left if we are adjacent to a closed cell, or the adjacent cell inherits
\* another in the same row."
CanLinkLeft(e, c) ==
    /\ ~InheritsData(e, c)
    /\ HasValidParent(c[2])
    /\ GetCell(e, c[1], RequestDirectParent(c[2])) # NoCell
    /\ InheritsData(e, GetCell(e, c[1], RequestDirectParent(c[2]))) =>
           e.CellTable[GetCell(e, c[1], RequestDirectParent(c[2]))].InheritedCell[1] = c[1]

CanLinkUp(e, c) ==
    /\ ~InheritsData(e, c)
    /\ HasValidParent(c[1])
    /\ GetCell(e, RequestDirectParent(c[1]), c[2]) # NoCell
    /\ InheritsData(e, GetCell(e, RequestDirectParent(c[1]), c[2])) =>
           e.CellTable[GetCell(e, RequestDirectParent(c[1]), c[2])].InheritedCell[2] = c[2]

LinkLeftEntry(SelectedCell) ==
    /\ ~fatal
    /\ Editor.Open
    /\ SelectedCell \in DOMAIN Editor.CellTable
    /\ CanLinkLeft(EditorAtWork, SelectedCell)
    /\ CommitEditor(AcquireInheritance(EditorAtWork, SelectedCell, TRUE),
                    [op |-> "AcquireInheritance", tag |-> SelectedCell, ret |-> TRUE,
                     stream |-> TRUE])
    /\ UNCHANGED <<Rows, Columns, NextRowIndex, NextColumnIndex>>

LinkUpEntry(SelectedCell) ==
    /\ ~fatal
    /\ Editor.Open
    /\ SelectedCell \in DOMAIN Editor.CellTable
    /\ CanLinkUp(EditorAtWork, SelectedCell)
    /\ CommitEditor(AcquireInheritance(EditorAtWork, SelectedCell, FALSE),
                    [op |-> "AcquireInheritance", tag |-> SelectedCell, ret |-> TRUE,
                     stream |-> FALSE])
    /\ UNCHANGED <<Rows, Columns, NextRowIndex, NextColumnIndex>>

CopyCellEntry(SelectedCell) ==
    /\ ~fatal
    /\ Editor.Open
    /\ SelectedCell \in DOMAIN Editor.CellTable
    /\ CommitEditor(CopyCellData(EditorAtWork, SelectedCell),
                    Op("CopyCellData", EmptyTag, TRUE))
    /\ UNCHANGED <<Rows, Columns, NextRowIndex, NextColumnIndex>>

\* "Paste cell" and "Paste visible data only", on the cells selected, in the order they
\* were selected in; VisibleProperties is what the visibility menu has checked.
PasteCellEntry(SelectedCells, VisiblePropertiesOnly, VisibleProperties) ==
    /\ ~fatal
    /\ Editor.Open
    /\ Editor.ReferenceCell # NoCell
    /\ Len(SelectedCells) > 0
    /\ VisiblePropertiesOnly =>
           (Editor.ActivePageView # NullStruct /\ VisibleProperties # {})
    /\ CommitEditor(PasteCellData(EditorAtWork, SelectedCells, VisiblePropertiesOnly,
                                  VisibleProperties),
                    Op("PasteCellData",
                       [c \in DOMAIN Editor.CellTable |->
                           \E i \in DOMAIN SelectedCells : SelectedCells[i] = c],
                       TRUE))
    /\ UNCHANGED <<Rows, Columns, NextRowIndex, NextColumnIndex>>

\* The header menu of a row: Delete Row, once the user has confirmed.
DeleteRowEntry(Row) ==
    /\ ~fatal
    /\ Editor.Open
    /\ Row \in NodeTags(Editor.RowRoot)
    /\ LET d == EditorDeleteRow(EditorAtWork, Rows, Row)
           Failed == d.e.Crashed \/ AnyPageCrashed(d.e.Pages)
       IN  /\ fatal' = Failed
           /\ lastOp' = [op |-> "EditorDeleteRow", tag |-> Row, ret |-> TRUE,
                        walked |-> DeleteWalk(Editor.RowRoot, Row)]
           /\ Pages' = IF Failed THEN Pages ELSE d.e.Pages
           /\ Editor' = IF Failed THEN Editor
                        ELSE [Open |-> TRUE, RowRoot |-> d.e.RowRoot,
                              ColumnRoot |-> d.e.ColumnRoot, CellTable |-> d.e.CellTable,
                              ActivePageView |-> d.e.ActivePageView,
                              ReferenceCell |-> d.e.ReferenceCell]
           /\ Rows' = IF Failed THEN Rows ELSE d.Map
           /\ RowColors' = IF Failed THEN RowColors
                           ELSE [t \in (DOMAIN RowColors) \cap (DOMAIN d.Map) |-> RowColors[t]]
    /\ UNCHANGED <<Columns, NextRowIndex, NextColumnIndex, Structures, InheritanceMaps,
                   ColumnColors, Datablock, assetVars>>

\* The header menu of a column: Delete Column.
DeleteColumnEntry(Column) ==
    /\ ~fatal
    /\ Editor.Open
    /\ Column \in NodeTags(Editor.ColumnRoot)
    /\ LET d == EditorDeleteColumn(EditorAtWork, Columns, Column)
           Failed == d.e.Crashed \/ AnyPageCrashed(d.e.Pages)
       IN  /\ fatal' = Failed
           /\ lastOp' = [op |-> "EditorDeleteColumn", tag |-> Column, ret |-> TRUE,
                        walked |-> DeleteWalk(Editor.ColumnRoot, Column)]
           /\ Pages' = IF Failed THEN Pages ELSE d.e.Pages
           /\ Editor' = IF Failed THEN Editor
                        ELSE [Open |-> TRUE, RowRoot |-> d.e.RowRoot,
                              ColumnRoot |-> d.e.ColumnRoot, CellTable |-> d.e.CellTable,
                              ActivePageView |-> d.e.ActivePageView,
                              ReferenceCell |-> d.e.ReferenceCell]
           /\ Columns' = IF Failed THEN Columns ELSE d.Map
           /\ ColumnColors' = IF Failed THEN ColumnColors
                              ELSE [t \in (DOMAIN ColumnColors) \cap (DOMAIN d.Map) |->
                                        ColumnColors[t]]
    /\ UNCHANGED <<Rows, NextRowIndex, NextColumnIndex, Structures, InheritanceMaps,
                   RowColors, Datablock, assetVars>>

EditorNext ==
    \/ \E t \in TagDictionary, IsRow \in BOOLEAN : OnAddTag(t, IsRow)
    \/ \E r \in TagDictionary, c \in TagDictionary, v \in Values :
          OnCellPropertyValueChanged(<<r, c>>, v)
    \/ \E r \in DeepTags, c \in DeepTags, x \in BOOLEAN, l \in RequestLists :
          QueryCall(r, c, x, l)

SpecEditor == EditorInit /\ [][EditorNext]_vars

----------------------------------------------------------------------------
(* The editor at work on the cells *)

EditingNext ==
    \/ \E t \in TagDictionary, IsRow \in BOOLEAN :
          t \notin DOMAIN (IF IsRow THEN Rows ELSE Columns) /\ OnAddTag(t, IsRow)
    \/ \E c \in DOMAIN Editor.CellTable, v \in Values : OnCellPropertyValueChanged(c, v)
    \/ \E c \in DOMAIN Editor.CellTable : MakeIndependentEntry(c)
    \/ \E c \in DOMAIN Editor.CellTable : LinkLeftEntry(c)
    \/ \E c \in DOMAIN Editor.CellTable : LinkUpEntry(c)
    \/ \E c \in DOMAIN Editor.CellTable : CopyCellEntry(c)
    \/ \E q \in DistinctSeqs(DOMAIN Editor.CellTable, MaxSelected), v \in SUBSET {1} :
          PasteCellEntry(q, v # {}, v)

SpecEditing == EditorInit /\ [][EditingNext]_vars

----------------------------------------------------------------------------
(* The inheritance of the cells of a table of several levels *)

\* The deepest row tag and column tag of a table that is built: both have parents.
TableShapes ==
    { s \in TagDictionary \X TagDictionary :
        Len(s[1]) > 1 /\ Len(s[2]) > 1 /\ Len(s[1]) * Len(s[2]) <= MaxCells }

\* The editor, opened on a table of one structure, after OnAddTag of a column tag and
\* then of a row tag.
BuiltTable(RowTag, ColumnTag) ==
    LET Pages0 == PostEditChangeProperty(EmptyMap, EmptyMap, <<>>, <<1>>)
        Editor0 == InitAffinityTableEditor(<<1>>)
        e0 == [RowRoot |-> Editor0.RowRoot, ColumnRoot |-> Editor0.ColumnRoot,
               CellTable |-> Editor0.CellTable, ActivePageView |-> Editor0.ActivePageView,
               ReferenceCell |-> Editor0.ReferenceCell,
               InheritanceMaps |-> EmptyMap, Structures |-> <<1>>, Pages |-> Pages0,
               Crashed |-> FALSE]
        c  == AddColumn(EmptyMap, 0, Pages0, ColumnTag)
        e1 == InsertColumn([e0 EXCEPT !.Pages = c.Pages], c.Map, ColumnTag)
        r  == AddRow(EmptyMap, 0, e1.Pages, RowTag)
        e2 == InsertRow([e1 EXCEPT !.Pages = r.Pages], r.Map, RowTag)
    IN  [Rows |-> r.Map, NextRowIndex |-> r.Next, Columns |-> c.Map,
         NextColumnIndex |-> c.Next, e |-> e2]

InheritanceInit ==
    /\ Datablock = NoDatablock
    /\ AssetInit
    /\ Structures = <<1>>
    /\ fatal = FALSE
    /\ \E s \in TableShapes : \E t \in {BuiltTable(s[1], s[2])} :
           /\ Rows = t.Rows
           /\ Columns = t.Columns
           /\ NextRowIndex = t.NextRowIndex
           /\ NextColumnIndex = t.NextColumnIndex
           /\ Pages = t.e.Pages
           /\ InheritanceMaps = t.e.InheritanceMaps
           /\ Editor = [Open |-> TRUE, RowRoot |-> t.e.RowRoot, ColumnRoot |-> t.e.ColumnRoot,
                        CellTable |-> t.e.CellTable, ActivePageView |-> t.e.ActivePageView,
                        ReferenceCell |-> t.e.ReferenceCell]
           /\ lastOp = Op("OnAddTag", <<s[1], TRUE>>, TRUE)

InheritanceNext ==
    \/ \E c \in DOMAIN Editor.CellTable, v \in Values : OnCellPropertyValueChanged(c, v)
    \/ \E c \in DOMAIN Editor.CellTable : MakeIndependentEntry(c)
    \/ \E c \in DOMAIN Editor.CellTable : LinkLeftEntry(c)
    \/ \E c \in DOMAIN Editor.CellTable : LinkUpEntry(c)

SpecInheritance == InheritanceInit /\ [][InheritanceNext]_vars

----------------------------------------------------------------------------
(* The headers of a table: tags added, deleted and added again *)

\* The tags the session picks in the dialog.
HeaderTags == { t \in TagDictionary : Len(t) <= MaxHeaderDepth }

HeadersNext ==
    \/ \E t \in HeaderTags, IsRow \in BOOLEAN :
          t \notin DOMAIN (IF IsRow THEN Rows ELSE Columns) /\ OnAddTagWithin(t, IsRow, MaxReissued)
    \/ \E t \in TagDictionary : DeleteRowEntry(t)
    \/ \E t \in TagDictionary : DeleteColumnEntry(t)
    \/ \E c \in DOMAIN Editor.CellTable : MakeIndependentEntry(c)

SpecHeaders == EditorInit /\ [][HeadersNext]_vars

----------------------------------------------------------------------------
(* The table as an asset: edited, saved and loaded *)

Colors == 1..NumColors

\* The table as its functions take it.
TableAtWork ==
    [Rows |-> Rows, Columns |-> Columns, NextRowIndex |-> NextRowIndex,
     NextColumnIndex |-> NextColumnIndex, Structures |-> Structures, Pages |-> Pages,
     InheritanceMaps |-> InheritanceMaps, RowTags |-> RowTags, ColumnTags |-> ColumnTags,
     RowColors |-> RowColors, ColumnColors |-> ColumnColors,
     bHasLoadingErrors |-> bHasLoadingErrors, Crashed |-> FALSE, Returned |-> FALSE]

\* The record of a cell is changed through the pointer GetCellData gives.
WriteCellCall(r, c, s, v) ==
    /\ ~fatal
    /\ r \in DOMAIN Rows /\ c \in DOMAIN Columns
    /\ GetCellData(Pages, Rows[r], Columns[c], s).Ptr # NullPtr
    /\ Pages' = [Pages EXCEPT ![GetPageForStruct(Pages, s)] =
                     WritePtr(@, GetCellData(Pages, Rows[r], Columns[c], s).Ptr, v)]
    /\ lastOp' = Op("WriteCell", <<r, c>>, TRUE)
    /\ UNCHANGED <<Datablock, assetVars, colorVars, InheritanceMaps, Editor, Rows, Columns,
                   NextRowIndex, NextColumnIndex, Structures, fatal>>

SetInheritanceLinkCall(InStruct, Child, Parent) ==
    /\ ~fatal
    /\ InheritanceMaps' = SetInheritanceLink(InheritanceMaps, InStruct, Child, Parent)
    /\ lastOp' = [op |-> "SetInheritanceLink", tag |-> Child, ret |-> TRUE,
                  struct |-> InStruct, parent |-> Parent]
    /\ UNCHANGED <<Datablock, assetVars, colorVars, Editor, Rows, Columns, NextRowIndex,
                   NextColumnIndex, Structures, Pages, fatal>>

SetTagColorCall(InTag, Color, IsRowTag) ==
    /\ ~fatal
    /\ InTag \in DOMAIN (IF IsRowTag THEN Rows ELSE Columns)
    /\ RowColors' = IF IsRowTag THEN SetTagColor(RowColors, InTag, Color) ELSE RowColors
    /\ ColumnColors' = IF IsRowTag THEN ColumnColors
                       ELSE SetTagColor(ColumnColors, InTag, Color)
    /\ lastOp' = Op("SetTagColor", InTag, IsRowTag)
    /\ UNCHANGED <<Datablock, assetVars, InheritanceMaps, Editor, Rows, Columns,
                   NextRowIndex, NextColumnIndex, Structures, Pages, fatal>>

\* What Serialize leaves behind when saving: the tag arrays of PreSaveTable and the
\* archive, or the abort if a check failed on the way.
CommitSave(r) ==
    /\ fatal' = r.Crashed
    /\ RowTags' = IF r.Crashed THEN RowTags ELSE r.Ar.RowTags
    /\ ColumnTags' = IF r.Crashed THEN ColumnTags ELSE r.Ar.ColumnTags
    /\ Archive' = IF r.Crashed THEN Archive ELSE r.Ar
    /\ lastOp' = Op("Save", EmptyTag, ~r.Crashed)

SaveCall ==
    /\ ~fatal
    /\ CommitSave(SaveTable(TableAtWork))
    /\ UNCHANGED <<Datablock, colorVars, bHasLoadingErrors, InheritanceMaps, Editor, Rows,
                   Columns, NextRowIndex, NextColumnIndex, Structures, Pages>>

\* The first tag of an array once more at its end.
WithFirstAgain(Tags) == IF Tags = <<>> THEN Tags ELSE Append(Tags, Tags[1])

\* The files a load may find in place of the one saved: the file itself, a file of an
\* older format, a file whose tag arrays name a tag twice, and a file one of whose
\* structures is gone, so that the entry of Structures is null.
ArchivesToLoad(a) ==
    IF ~a.Saved THEN {} ELSE
    {a}
    \cup { [a EXCEPT !.Format = f] : f \in 0..(FileFormatVersion - 1) }
    \cup { [a EXCEPT !.RowTags = WithFirstAgain(@)], [a EXCEPT !.ColumnTags = WithFirstAgain(@)] }
    \cup { [a EXCEPT !.Structures = [i \in DOMAIN @ |-> NullStruct]] }

HasDuplicates(Tags) == \E i, j \in DOMAIN Tags : i < j /\ Tags[i] = Tags[j]

\* What Serialize leaves behind when loading; the archive is read once. The call is
\* remembered with its format, how it ended, whether it read what the step before it
\* saved, whether the table held anything, and whether a tag changed its index.
CommitLoad(t, a) ==
    LET Failed == t.Crashed \/ AnyPageCrashed(t.Pages)
    IN  /\ fatal' = Failed
        /\ Rows' = IF Failed THEN Rows ELSE t.Rows
        /\ Columns' = IF Failed THEN Columns ELSE t.Columns
        /\ NextRowIndex' = IF Failed THEN NextRowIndex ELSE t.NextRowIndex
        /\ NextColumnIndex' = IF Failed THEN NextColumnIndex ELSE t.NextColumnIndex
        /\ Structures' = IF Failed THEN Structures ELSE t.Structures
        /\ Pages' = IF Failed THEN Pages ELSE t.Pages
        /\ InheritanceMaps' = IF Failed THEN InheritanceMaps ELSE t.InheritanceMaps
        /\ RowTags' = IF Failed THEN RowTags ELSE t.RowTags
        /\ ColumnTags' = IF Failed THEN ColumnTags ELSE t.ColumnTags
        /\ RowColors' = IF Failed THEN RowColors ELSE t.RowColors
        /\ ColumnColors' = IF Failed THEN ColumnColors ELSE t.ColumnColors
        /\ bHasLoadingErrors' = IF Failed THEN bHasLoadingErrors ELSE t.bHasLoadingErrors
        /\ lastOp' = [op |-> "Load", tag |-> EmptyTag, ret |-> ~Failed,
                      format |-> a.Format,
                      saved |-> lastOp.op = "Save" /\ a = Archive,
                      held |-> DOMAIN Rows # {} \/ DOMAIN Columns # {} \/ Pages # <<>>,
                      abort |-> IF ~t.Returned THEN "none"
                                ELSE IF HasDuplicates(a.RowTags) \/ HasDuplicates(a.ColumnTags)
                                     THEN "duplicates"
                                ELSE IF bHasLoadingErrors THEN "flag"
                                ELSE "schema",
                      moved |-> \/ \E x \in DOMAIN t.Rows \cap DOMAIN Rows :
                                        t.Rows[x] # Rows[x]
                                \/ \E x \in DOMAIN t.Columns \cap DOMAIN Columns :
                                        t.Columns[x] # Columns[x]]

LoadCall(a) ==
    /\ ~fatal
    /\ Archive.Saved
    /\ CommitLoad(Serialize(TableAtWork, a), a)
    /\ Archive' = NoArchive
    /\ UNCHANGED <<Datablock, Editor>>

\* The cell of a row below a root is linked to the cell of the row's parent.
\* The columns of the session, and the tags it colors, are root tags.
AssetColumnTags == { t \in TagDictionary : ~HasValidParent(t) }

\* The session edits a new table until it saves it; from then on the table is loaded
\* and saved.
Editing == ~Archive.Saved /\ lastOp.op # "Load"

AssetNext ==
    \/ Editing /\ \E t \in AnyTag : AddRowCall(t)
    \/ Editing /\ \E t \in AssetColumnTags : AddColumnCall(t)
    \/ Editing /\ \E t \in TagDictionary : DeleteRowCall(t)
    \/ Editing /\ \E t \in AssetColumnTags : DeleteColumnCall(t)
    \/ Editing /\ Len(Structures) < MaxStructures /\ StructuresArrayAdd
    \/ Editing /\ StructuresValueSet
    \/ Editing /\ \E r \in TagDictionary, c \in AssetColumnTags, s \in Schemas, v \in Values :
                     WriteCellCall(r, c, s, v)
    \/ Editing /\ \E s \in Schemas, r \in DOMAIN Rows, c \in DOMAIN Columns :
                     /\ HasValidParent(r)
                     /\ SetInheritanceLinkCall(s, CellTags(r, c),
                                               CellTags(RequestDirectParent(r), c))
    \/ Editing /\ \E t \in AssetColumnTags, Color \in Colors, IsRowTag \in BOOLEAN :
                     SetTagColorCall(t, Color, IsRowTag)
    \/ SaveCall
    \/ \E a \in ArchivesToLoad(Archive) : LoadCall(a)

SpecAsset == TableInit /\ [][AssetNext]_vars

----------------------------------------------------------------------------
(* A saved table, loaded *)

\* What SaveTable writes for a table of the given rows and columns in index order: with
\* a structure, its page of one record for every pair of a row and a column.
SavedArchives ==
    { [Saved |-> TRUE, Format |-> FileFormatVersion, Structures |-> <<>>,
       RowTags |-> r, ColumnTags |-> c, Pages |-> <<>>,
       RowColors |-> EmptyMap, ColumnColors |-> EmptyMap, Links |-> <<>>] :
          r \in DistinctSeqs(TagDictionary, MaxArchiveRows),
          c \in DistinctSeqs(TagDictionary, MaxArchiveColumns) }
    \cup
    UNION { { [Saved |-> TRUE, Format |-> FileFormatVersion, Structures |-> <<1>>,
               RowTags |-> r, ColumnTags |-> c,
               Pages |-> <<[StructName |-> 1, Data |-> d]>>,
               RowColors |-> EmptyMap, ColumnColors |-> EmptyMap,
               Links |-> <<[StructName |-> 1, Links |-> <<>>]>>] :
                  d \in [1..(Len(r) * Len(c)) -> Values] } :
            r \in DistinctSeqs(TagDictionary, MaxArchiveRows),
            c \in DistinctSeqs(TagDictionary, MaxArchiveColumns) }

\* A table as constructed, and the archive of a saved one at hand.
LoadInit ==
    /\ Datablock = NoDatablock
    /\ RowTags = <<>> /\ ColumnTags = <<>>
    /\ RowColors = EmptyMap /\ ColumnColors = EmptyMap
    /\ bHasLoadingErrors = FALSE
    /\ Archive \in SavedArchives
    /\ Rows = EmptyMap
    /\ Columns = EmptyMap
    /\ NextRowIndex = 0
    /\ NextColumnIndex = 0
    /\ Structures = <<>>
    /\ Pages = <<>>
    /\ InheritanceMaps = EmptyMap
    /\ Editor = NoEditor
    /\ fatal = FALSE
    /\ lastOp = Op("Init", EmptyTag, FALSE)

LoadNext == \E a \in ArchivesToLoad(Archive) : LoadCall(a)

SpecLoad == LoadInit /\ [][LoadNext]_vars

----------------------------------------------------------------------------
(* The link store on its own *)

\* The structures a caller may pass: the registered ones and one that is not.
LinkStructs == 1..(NumSchemas + 1)

\* The cells a caller links: the rows of the two upper levels in a root column.
LinkableCells ==
    { CellTags(r, c) : r \in { t \in TagDictionary : Len(t) <= 2 },
                       c \in { t \in TagDictionary : ~HasValidParent(t) } }

TryGetInheritanceLinkCall(InStruct, Child) ==
    /\ ~fatal
    /\ InheritanceMaps' = TryGetInheritanceLink(InheritanceMaps, InStruct, Child).Maps
    /\ lastOp' = [op |-> "TryGetInheritanceLink", tag |-> Child,
                  ret |-> TryGetInheritanceLink(InheritanceMaps, InStruct, Child).Ret,
                  struct |-> InStruct,
                  parent |-> TryGetInheritanceLink(InheritanceMaps, InStruct, Child).OutParent]
    /\ UNCHANGED <<Datablock, assetVars, colorVars, Editor, Rows, Columns, NextRowIndex,
                   NextColumnIndex, Structures, Pages, fatal>>

RemoveInheritanceLinkCall(InStruct, InCell) ==
    /\ ~fatal
    /\ InheritanceMaps' = RemoveInheritanceLink(InheritanceMaps, InStruct, InCell)
    /\ lastOp' = [op |-> "RemoveInheritanceLink", tag |-> InCell, ret |-> TRUE,
                  struct |-> InStruct, parent |-> NoCellTags]
    /\ UNCHANGED <<Datablock, assetVars, colorVars, Editor, Rows, Columns, NextRowIndex,
                   NextColumnIndex, Structures, Pages, fatal>>

LinksNext ==
    \/ \E s \in LinkStructs, c \in LinkableCells, p \in LinkableCells : SetInheritanceLinkCall(s, c, p)
    \/ \E s \in LinkStructs, c \in LinkableCells : TryGetInheritanceLinkCall(s, c)
    \/ \E s \in LinkStructs, c \in LinkableCells : RemoveInheritanceLinkCall(s, c)

SpecLinks == TableInit /\ [][LinksNext]_vars

----------------------------------------------------------------------------
(* A table of several structures *)

\* The structures the panel offers: one more than the other sessions register.
PageSchemas == 1..(NumSchemas + 1)

\* The rows of the session: root tags and their children.
SchemasRowTags == { t \in TagDictionary : Len(t) <= 2 }

SchemasNext ==
    \/ \E t \in SchemasRowTags : AddRowCall(t)
    \/ \E t \in AssetColumnTags : AddColumnCall(t)
    \/ \E t \in SchemasRowTags : DeleteRowCall(t)
    \/ \E t \in AssetColumnTags : DeleteColumnCall(t)
    \/ Len(Structures) <= MaxStructures /\ StructuresArrayAdd
    \/ \E i \in 1..Len(Structures), s \in PageSchemas \cup {NullStruct} :
          StructuresEdit([Structures EXCEPT ![i] = s])
    \/ StructuresArrayRemove
    \/ StructuresArrayClear

SpecSchemas == TableInit /\ [][SchemasNext]_vars

----------------------------------------------------------------------------
(* Queries that request several structures *)

\* The requests of the session: lists of distinct structures, registered or not.
SeveralStructures == DistinctSeqs(PageSchemas, MaxRequested)

RequestsNext ==
    \/ \E t \in AssetColumnTags : AddRowCall(t)
    \/ \E t \in AssetColumnTags : AddColumnCall(t)
    \/ \E t \in AssetColumnTags : DeleteColumnCall(t)
    \/ Len(Structures) < MaxRequested /\ StructuresArrayAdd
    \/ \E i \in 1..Len(Structures), s \in PageSchemas :
          StructuresEdit([Structures EXCEPT ![i] = s])
    \/ \E r \in TagDictionary, c \in AssetColumnTags, e \in BOOLEAN, l \in SeveralStructures :
          QueryCall(r, c, e, l)
    \/ \E r \in TagDictionary, e \in BOOLEAN, l \in SeveralStructures : QueryForRowCall(r, e, l)

SpecRequests == TableInit /\ [][RequestsNext]_vars

----------------------------------------------------------------------------
(* Properties of the table: lookups and queries *)

\* a is t or an ancestor of t.
IsSelfOrAncestor(a, t) == Len(a) <= Len(t) /\ SubSeq(t, 1, Len(a)) = a

IndexedAncestors(map, t) == { a \in DOMAIN map : IsValidTag(a) /\ IsSelfOrAncestor(a, t) }

LongestIndexed(map, t) ==
    CHOOSE a \in IndexedAncestors(map, t) : \A b \in IndexedAncestors(map, t) : Len(b) <= Len(a)

\* C1: a closest-match lookup of t returns the index of the longest indexed tag that is
\* t or an ancestor of t, and Invalid if there is none or t is invalid; an exact lookup
\* returns t's index if and only if t itself is indexed.
C1_LookupLongestIndexed ==
    \A map \in {Rows, Columns}, t \in AnyTag :
        /\ GetIndex(map, t, FALSE) = IF IndexedAncestors(map, t) = {} THEN InvalidIndex
                                     ELSE map[LongestIndexed(map, t)]
        /\ GetIndex(map, t, TRUE) = IF IsValidTag(t) /\ t \in DOMAIN map THEN map[t]
                                    ELSE InvalidIndex

\* A closest-match query succeeded on a row tag that is not indexed and has two indexed
\* ancestors: the lookup took the nearer one.
C1_Witness ==
    /\ lastOp.op = "Query" /\ ~lastOp.exact /\ lastOp.ret
    /\ lastOp.tag[1] \notin DOMAIN Rows
    /\ Cardinality(IndexedAncestors(Rows, lastOp.tag[1])) = 2
    /\ GetIndex(Rows, lastOp.tag[1], FALSE) = Rows[RequestDirectParent(lastOp.tag[1])]

\* The page of structure s holds a live record at position (r, c).
LiveRecordAt(pages, s, r, c) ==
    LET i == GetPageForStruct(pages, s)
    IN  /\ i # 0
        /\ r < Len(pages[i].Rows)
        /\ pages[i].Rows[r + 1].Valid
        /\ c < Len(pages[i].Rows[r + 1].Handles)
        /\ pages[i].Rows[r + 1].Handles[c + 1] # InvalidDataHandle

\* C2: a Query called with an empty output list returns, and returns true if and only if
\* both tags resolve to a valid index and every requested structure has a page holding a
\* live record at the resolved cell.
C2_QueryAllOrNothing ==
    \A r \in AnyTag, c \in AnyTag, e \in BOOLEAN, l \in RequestLists :
        LET q  == Query(Rows, Columns, Structures, Pages, r, c, e, l, <<>>)
            ri == GetIndex(Rows, r, e)
            ci == GetIndex(Columns, c, e)
        IN  /\ ~q.Crashed
            /\ q.Ret <=> /\ ri # InvalidIndex
                         /\ ci # InvalidIndex
                         /\ \A k \in DOMAIN l : LiveRecordAt(Pages, l[k], ri, ci)

----------------------------------------------------------------------------
(* Properties of the table: the indices *)

\* C4: AddRow (AddColumn) of a tag that is already indexed, or of the invalid tag,
\* returns false and changes no index, no counter and no page.
C4_RejectedAddChangesNothing ==
    [][ /\ (/\ lastOp'.op = "AddRow"
            /\ (~IsValidTag(lastOp'.tag) \/ lastOp'.tag \in DOMAIN Rows))
           => (~lastOp'.ret /\ UNCHANGED <<Rows, Columns, NextRowIndex, NextColumnIndex, Pages>>)
        /\ (/\ lastOp'.op = "AddColumn"
            /\ (~IsValidTag(lastOp'.tag) \/ lastOp'.tag \in DOMAIN Columns))
           => (~lastOp'.ret /\ UNCHANGED <<Rows, Columns, NextRowIndex, NextColumnIndex, Pages>>)
      ]_vars

\* An indexed row tag was added again while a page with rows and columns exists.
C4_Witness ==
    /\ lastOp.op = "AddRow" /\ ~lastOp.ret
    /\ lastOp.tag \in DOMAIN Rows
    /\ Len(Pages) > 0 /\ Len(Pages[1].Rows) > 0 /\ Pages[1].Columns > 0

IndicesDistinct(map) == \A a, b \in DOMAIN map : a # b => map[a] # map[b]

\* The tags a step (re)indexes get indices from the counter's old value on.
IssuedFromCounter(old, new, next) ==
    \A t \in DOMAIN new : (t \notin DOMAIN old \/ new[t] # old[t]) => new[t] >= next

\* C5: distinct indexed tags have distinct indices, all below the axis counter; the
\* counter never decreases and a step indexes a tag only at or above the counter, so no
\* index is issued twice and a tag added again gets an index above every earlier one.
C5_IndicesNeverReissued ==
    /\ [](/\ IndicesDistinct(Rows) /\ IndicesDistinct(Columns)
          /\ \A t \in DOMAIN Rows : Rows[t] >= 0 /\ Rows[t] < NextRowIndex
          /\ \A t \in DOMAIN Columns : Columns[t] >= 0 /\ Columns[t] < NextColumnIndex)
    /\ [][ /\ NextRowIndex' >= NextRowIndex
           /\ NextColumnIndex' >= NextColumnIndex
           /\ IssuedFromCounter(Rows, Rows', NextRowIndex)
           /\ IssuedFromCounter(Columns, Columns', NextColumnIndex) ]_vars

\* A column tag that held index 0 was deleted and added again: it now holds index 1.
C5_Witness ==
    /\ lastOp = Op("AddColumn", <<1>>, TRUE)
    /\ DOMAIN Columns = {<<1>>}
    /\ Columns[<<1>>] = 1

\* The handle a page holds at position (r, c); the invalid handle where there is none.
CellHandle(p, r, c) ==
    IF r < Len(p.Rows) /\ p.Rows[r + 1].Valid /\ c < Len(p.Rows[r + 1].Handles)
    THEN p.Rows[r + 1].Handles[c + 1]
    ELSE InvalidDataHandle

\* The cells of the tags indexed after the step hold the handles they held before it.
SurvivingCellsKeepHandles ==
    /\ Len(Pages') = Len(Pages)
    /\ \A i \in DOMAIN Pages, a \in DOMAIN Rows', b \in DOMAIN Columns' :
           CellHandle(Pages'[i], Rows'[a], Columns'[b]) = CellHandle(Pages[i], Rows[a], Columns[b])

\* C6: a DeleteRow(t) / DeleteColumn(t) that returns removes the mapping of t and no
\* other: every other row and column tag, the descendants of t included, keeps its
\* index, and the page cells of the surviving tags keep their handles.
C6_DeleteRemovesOnlyItsTag ==
    [][ /\ (lastOp'.op = "DeleteRow" /\ ~fatal')
           => /\ Rows' = MapRemove(Rows, lastOp'.tag)
              /\ Columns' = Columns
              /\ SurvivingCellsKeepHandles
        /\ (lastOp'.op = "DeleteColumn" /\ ~fatal')
           => /\ Columns' = MapRemove(Columns, lastOp'.tag)
              /\ Rows' = Rows
              /\ SurvivingCellsKeepHandles
      ]_vars

\* A row tag was deleted whose child stays indexed, and the child's row still holds a
\* record in the page.
C6_Witness ==
    /\ lastOp = Op("DeleteRow", <<1>>, TRUE) /\ ~fatal
    /\ <<1, 1>> \in DOMAIN Rows
    /\ Len(Pages) > 0
    /\ \E b \in DOMAIN Columns :
           CellHandle(Pages[1], Rows[<<1, 1>>], Columns[b]) # InvalidDataHandle

\* No lookup and no query with column tag d succeeds.
ColumnUnresolvable(d) ==
    \A e \in BOOLEAN :
        /\ GetIndex(Columns, d, e) = InvalidIndex
        /\ \A r \in AnyTag, l \in RequestLists :
               ~Query(Rows, Columns, Structures, Pages, r, d, e, l, <<>>).Ret

\* C7 as stated, at the state a DeleteColumn(t) leaves: every lookup and every query,
\* exact or closest-match, whose column tag is t or a descendant of t fails.
C7_DeletedColumnUnresolvable ==
    (lastOp.op = "DeleteColumn" /\ lastOp.ret /\ ~fatal)
        => \A d \in AnyTag : IsSelfOrAncestor(lastOp.tag, d) => ColumnUnresolvable(d)

\* C7 amended: DeleteColumn(t) takes t out of the index and no lookup yields the index t
\* had; t comes back only through an AddColumn of t or of a descendant of t; and while t
\* is not indexed every exact lookup of t is Invalid and every exact query with column t
\* fails. (A closest-match lookup of t or of a descendant falls back to the nearest tag
\* still indexed.)
C7_DeletedColumnExactUnresolvable ==
    /\ [](\A t \in AnyTag \ DOMAIN Columns :
              /\ GetIndex(Columns, t, TRUE) = InvalidIndex
              /\ \A r \in AnyTag, l \in RequestLists :
                     LET q == Query(Rows, Columns, Structures, Pages, r, t, TRUE, l, <<>>)
                     IN  ~q.Ret /\ ~q.Crashed)
    /\ [][ /\ (lastOp'.op = "DeleteColumn" /\ lastOp'.ret /\ ~fatal')
              => /\ lastOp'.tag \notin DOMAIN Columns'
                 /\ \A d \in AnyTag, e \in BOOLEAN :
                        GetIndex(Columns', d, e) # Columns[lastOp'.tag]
           /\ \A t \in TagDictionary :
                  (t \notin DOMAIN Columns /\ t \in DOMAIN Columns')
                      => (lastOp'.op = "AddColumn" /\ IsSelfOrAncestor(t, lastOp'.tag))
         ]_vars

\* A column was deleted while its parent stays indexed and a page exists: the exact
\* lookup of the deleted tag is Invalid, the closest-match lookup finds the parent.
C7_Witness ==
    /\ lastOp = Op("DeleteColumn", <<1, 1>>, TRUE) /\ ~fatal
    /\ <<1>> \in DOMAIN Columns
    /\ Len(Pages) > 0
    /\ GetIndex(Columns, <<1, 1>>, TRUE) = InvalidIndex
    /\ GetIndex(Columns, <<1, 1>>, FALSE) = Columns[<<1>>]

\* C8: after AddRow(t) (AddColumn(t)) with a valid tag, t and every ancestor of t are
\* indexed, every page has gained one row (column) per tag the call indexed, and every
\* page has the position of every indexed tag.
C8_AddGrowsEveryPage ==
    [][ /\ (lastOp'.op = "AddRow" /\ IsValidTag(lastOp'.tag) /\ ~fatal')
           => /\ \A a \in TagDictionary : IsSelfOrAncestor(a, lastOp'.tag) => a \in DOMAIN Rows'
              /\ Len(Pages') = Len(Pages)
              /\ \A i \in DOMAIN Pages :
                     /\ Len(Pages'[i].Rows) =
                            Len(Pages[i].Rows) + Cardinality(DOMAIN Rows' \ DOMAIN Rows)
                     /\ \A a \in DOMAIN Rows' : Rows'[a] < Len(Pages'[i].Rows)
        /\ (lastOp'.op = "AddColumn" /\ IsValidTag(lastOp'.tag) /\ ~fatal')
           => /\ \A a \in TagDictionary : IsSelfOrAncestor(a, lastOp'.tag) => a \in DOMAIN Columns'
              /\ Len(Pages') = Len(Pages)
              /\ \A i \in DOMAIN Pages :
                     /\ Pages'[i].Columns =
                            Pages[i].Columns + Cardinality(DOMAIN Columns' \ DOMAIN Columns)
                     /\ \A b \in DOMAIN Columns' : Columns'[b] < Pages'[i].Columns
      ]_vars

----------------------------------------------------------------------------
(* Properties of a page *)

\* The cells of a page constructed with InRows rows and InColumns columns.
CellsOf(InRows, InColumns) == (0..(InRows - 1)) \X (0..(InColumns - 1))

\* C9: a fixed-mode page constructed with R rows and C columns, R * C > 0 (more than one
\* datablock's capacity included), gives for every r < R and c < C a non-null pointer to
\* a default-initialized record, and no two cells share a record.
C9_FixedPageCells ==
    (lastOp.op = "NewPage" /\ lastOp.ret /\ lastOp.tag[1] * lastOp.tag[2] > 0)
        => /\ ~fatal
           /\ \A x \in CellsOf(lastOp.tag[1], lastOp.tag[2]) :
                  LET r == GetDatablockPtr(Pages[1], x[1], x[2])
                  IN  /\ ~r.Crashed
                      /\ r.Ptr # NullPtr
                      /\ ReadPtr(Pages[1], r.Ptr) = DefaultValue
           /\ Cardinality({ GetDatablockPtr(Pages[1], x[1], x[2]).Ptr :
                                x \in CellsOf(lastOp.tag[1], lastOp.tag[2]) })
                  = lastOp.tag[1] * lastOp.tag[2]

\* A fixed-mode page was constructed with more cells than one datablock holds.
C9_Witness ==
    /\ lastOp.op = "NewPage" /\ lastOp.ret
    /\ lastOp.tag[1] * lastOp.tag[2] > MaxDatablockCapacity
    /\ Len(Pages[1].Datablocks) = 2
    /\ ~fatal

\* Every slot of every datablock of the page is issued and none is waiting for reuse.
AllSlotsLive(p) ==
    \A i \in DOMAIN p.Datablocks :
        /\ p.Datablocks[i].Allocated
        /\ p.Datablocks[i].NextHandle = p.Datablocks[i].Capacity
        /\ p.Datablocks[i].FreeHandles = <<>>

LiveColumns(p) == { c \in 0..(p.Columns - 1) : c \notin p.DeletedColumns }

LiveRows(p) == { r \in 0..(Len(p.Rows) - 1) : p.Rows[r + 1].Valid }

\* C10: in fixed mode, an AddRow or AddColumn that needs a handle while every slot is
\* live ends in the failed assertion of NewHandle, and no live cell of a fixed-mode page
\* ever holds the invalid handle.
C10_FixedExhaustionIsFatal ==
    [][ /\ (/\ Pages[1].FixedMode /\ AllSlotsLive(Pages[1])
            /\ \/ lastOp'.op = "PageAddRow" /\ LiveColumns(Pages[1]) # {}
               \/ lastOp'.op = "PageAddColumn" /\ LiveRows(Pages[1]) # {})
           => fatal'
        /\ Pages'[1].FixedMode
           => \A r \in LiveRows(Pages'[1]), c \in LiveColumns(Pages'[1]) :
                  CellHandle(Pages'[1], r, c) # InvalidDataHandle
      ]_vars

----------------------------------------------------------------------------
(* Properties of queries on a table under edit *)

\* The tag of n segments on the chain below the first root: A, A.B, A.B.C for the rows,
\* World, World.Impact, World.Impact.Water for the columns.
ChainTag(n) == [i \in 1..n |-> 1]

\* The value "Slash": a value that is not the default.
Slash == NumValues

\* The value of the record of structure s at the cell of two indexed tags.
ValueAt(s, RowTag, ColumnTag) ==
    LET i == GetPageForStruct(Pages, s)
    IN  ReadPtr(Pages[i], GetCellData(Pages, Rows[RowTag], Columns[ColumnTag], s).Ptr)

\* Rows {A, A.B}, columns {World, World.Impact}; (A, World) is independent and holds
\* Slash, every other cell inherits from it.
SlashScenario ==
    /\ DOMAIN Rows = {ChainTag(1), ChainTag(2)}
    /\ DOMAIN Columns = {ChainTag(1), ChainTag(2)}
    /\ Editor.Open
    /\ DOMAIN Editor.CellTable = (DOMAIN Rows) \X (DOMAIN Columns)
    /\ \A c \in DOMAIN Editor.CellTable :
           Editor.CellTable[c].InheritedCell =
               IF c = <<ChainTag(1), ChainTag(1)>> THEN NoCell ELSE <<ChainTag(1), ChainTag(1)>>
    /\ ValueAt(1, ChainTag(1), ChainTag(1)) = Slash

\* C3: a closest-match Query returns and, whatever the inheritance links are, answers
\* with the records stored at (closest indexed row ancestor, closest indexed column
\* ancestor), one for each requested structure; it succeeds whenever both tags have an
\* indexed ancestor and the requested structures are registered.  In the scenario, the
\* query (A.B.C, World.Impact.Water) returns the record of cell (A.B, World.Impact),
\* whose value is Slash.
C3_ClosestMatchIgnoresLinks ==
    /\ \A r \in AnyTag, c \in AnyTag, l \in RequestLists :
           LET q == Query(Rows, Columns, Structures, Pages, r, c, FALSE, l, <<>>)
               Resolved == IndexedAncestors(Rows, r) # {} /\ IndexedAncestors(Columns, c) # {}
           IN  /\ ~q.Crashed
               /\ q.Ret =>
                      /\ Resolved
                      /\ Len(q.Out) = Len(l)
                      /\ \A k \in DOMAIN l :
                             LET Stored == GetCellData(Pages, Rows[LongestIndexed(Rows, r)],
                                                       Columns[LongestIndexed(Columns, c)], l[k])
                             IN  /\ Stored.Ptr # NullPtr
                                 /\ q.Out[k] = [Struct |-> l[k], Ptr |-> Stored.Ptr]
               /\ (Resolved /\ \A k \in DOMAIN l : \E i \in DOMAIN Structures : Structures[i] = l[k])
                      => q.Ret
    /\ SlashScenario =>
           LET q == Query(Rows, Columns, Structures, Pages, ChainTag(3), ChainTag(3), FALSE,
                          <<1>>, <<>>)
           IN  /\ q.Ret
               /\ Len(q.Out) = 1
               /\ q.Out[1].Ptr = GetCellData(Pages, Rows[ChainTag(2)], Columns[ChainTag(2)], 1).Ptr
               /\ ReadPtr(Pages[GetPageForStruct(Pages, 1)], q.Out[1].Ptr) = Slash

\* The scenario was built in the editor and the game asked for (A.B.C, World.Impact.Water):
\* the answer is the record of (A.B, World.Impact), another record than that of (A, World),
\* and it holds Slash.
C3_Witness ==
    /\ SlashScenario
    /\ lastOp.op = "Query" /\ ~lastOp.exact /\ lastOp.ret
    /\ lastOp.tag = <<ChainTag(3), ChainTag(3)>>
    /\ lastOp.structs = <<1>>
    /\ lastOp.out[1].Ptr = GetCellData(Pages, Rows[ChainTag(2)], Columns[ChainTag(2)], 1).Ptr
    /\ lastOp.out[1].Ptr # GetCellData(Pages, Rows[ChainTag(1)], Columns[ChainTag(1)], 1).Ptr
    /\ ReadPtr(Pages[GetPageForStruct(Pages, 1)], lastOp.out[1].Ptr) = Slash

----------------------------------------------------------------------------
(* Properties of handle requests *)

\* The datablock has a slot to give: one it never issued, or a recycled one.
HasFreeSlot(d) ==
    \/ (IF d.Allocated THEN d.NextHandle ELSE 0) < d.Capacity
    \/ Len(d.FreeHandles) > 0

\* The datablock (0-based) a request finds its slot in: the current one if it has a slot,
\* else the first one that has.
DatablockOfNextHandle(p) ==
    IF HasFreeSlot(p.Datablocks[p.CurrentDatablock + 1]) THEN p.CurrentDatablock
    ELSE CHOOSE i \in 0..(Len(p.Datablocks) - 1) :
             /\ HasFreeSlot(p.Datablocks[i + 1])
             /\ \A j \in 0..(i - 1) : ~HasFreeSlot(p.Datablocks[j + 1])

\* C11: in dynamic mode NewHandle returns a valid handle and no check fails. If a
\* datablock has a slot to give, no datablock is added and the handle is of the current
\* datablock, or of the first one with a slot if the current one has none; otherwise
\* exactly one datablock of full capacity is added and the handle is its slot 0.
C11_DynamicRequestNeverFails ==
    (~fatal /\ ~Pages[1].FixedMode) =>
        LET p == Pages[1]
            r == NewHandle(p)
            n == Len(p.Datablocks)
        IN  /\ r.Handle # InvalidDataHandle
            /\ ~PageCrashed(r.Page)
            /\ IF \E i \in 1..n : HasFreeSlot(p.Datablocks[i])
               THEN /\ Len(r.Page.Datablocks) = n
                    /\ r.Handle.hi = DatablockOfNextHandle(p)
                    /\ r.Page.CurrentDatablock = r.Handle.hi
                    /\ LET d == p.Datablocks[r.Handle.hi + 1]
                       IN  IF d.NextHandle < d.Capacity THEN r.Handle.lo = d.NextHandle
                           ELSE \E k \in DOMAIN d.FreeHandles : d.FreeHandles[k] = r.Handle.lo
               ELSE /\ Len(r.Page.Datablocks) = n + 1
                    /\ r.Page.Datablocks[n + 1].Capacity = MaxDatablockCapacity
                    /\ r.Handle = MakeHandle(n, 0)
                    /\ r.Page.CurrentDatablock = n
                    /\ \A i \in 1..n : r.Page.Datablocks[i] = p.Datablocks[i]

\* A dynamic page whose datablocks were all full when AddRow asked for handles: the row
\* was added, and the page has a datablock more than it was constructed with.
C11_Witness ==
    /\ ~fatal /\ ~Pages[1].FixedMode
    /\ lastOp.op = "PageAddRow" /\ lastOp.ret
    /\ Len(Pages[1].Rows) = 2
    /\ Pages[1].Columns > MaxDatablockCapacity
    /\ Len(Pages[1].Datablocks) = 4

\* The live cells of a page: those of a row that is there and a column not deleted.
LiveCells(p) == LiveRows(p) \X LiveColumns(p)

\* The live cells that hold a handle.
HoldingCells(p) == { x \in LiveCells(p) : CellHandle(p, x[1], x[2]) # InvalidDataHandle }

\* The handles waiting for reuse in a datablock.
FreeSet(d) == { d.FreeHandles[k] : k \in DOMAIN d.FreeHandles }

\* C12: on a page edited by AddRow, AddColumn, DeleteRow and DeleteColumn, the live cells
\* that hold a handle hold different handles, each the handle of an issued slot of a
\* datablock of the page that is not on the free list of the datablock; and no slot is
\* on a free list twice.
C12_LiveHandlesUnshared ==
    ~fatal =>
        LET p == Pages[1]
        IN  /\ Cardinality({ CellHandle(p, x[1], x[2]) : x \in HoldingCells(p) })
                   = Cardinality(HoldingCells(p))
            /\ \A x \in HoldingCells(p) :
                   LET h == CellHandle(p, x[1], x[2])
                   IN  /\ h.hi >= 0 /\ h.hi < Len(p.Datablocks)
                       /\ h.lo >= 0 /\ h.lo < p.Datablocks[h.hi + 1].NextHandle
                       /\ h.lo \notin FreeSet(p.Datablocks[h.hi + 1])
            /\ \A i \in DOMAIN p.Datablocks :
                   /\ Cardinality(FreeSet(p.Datablocks[i])) = Len(p.Datablocks[i].FreeHandles)
                   /\ \A s \in FreeSet(p.Datablocks[i]) :
                          s >= 0 /\ s < p.Datablocks[i].NextHandle

\* A row was deleted and a row added after it: the new row took over a slot the deleted
\* row had released, and a second column makes two live cells.
C12_Witness ==
    /\ ~fatal
    /\ lastOp.op = "PageAddRow" /\ lastOp.ret
    /\ Len(Pages[1].Rows) = 2
    /\ ~Pages[1].Rows[1].Valid
    /\ Cardinality(HoldingCells(Pages[1])) = 2
    /\ \E i \in DOMAIN Pages[1].Datablocks :
           /\ Pages[1].Datablocks[i].NextHandle = Pages[1].Datablocks[i].Capacity
           /\ Pages[1].Datablocks[i].FreeHandles = <<>>
    /\ Pages[1].FixedMode

----------------------------------------------------------------------------
(* Properties of a datablock *)

\* C13: the record behind a handle that NewHandle returns holds the structure default,
\* whether the slot is a new one or one that was given back, its record written or not.
C13_IssuedRecordIsDefault ==
    [][ (lastOp'.op = "NewHandle" /\ lastOp'.ret # InvalidHandle /\ ~fatal')
            => /\ lastOp'.ret \in LiveHandles(Datablock')
               /\ MemRead(Datablock', lastOp'.ret) = DefaultValue ]_vars

\* A datablock at full capacity gave out again a slot whose record had been written
\* before the slot was given back.
C13_Witness ==
    /\ lastOp.op = "NewHandle" /\ lastOp.ret # InvalidHandle
    /\ lastOp.held # DefaultValue
    /\ Datablock.NextHandle = Datablock.Capacity
    /\ MemRead(Datablock, lastOp.ret) = DefaultValue
    /\ ~fatal

\* The slots a datablock has issued since its buffer was allocated.
IssuedCount(d) == IF d.Allocated THEN d.NextHandle ELSE 0

\* C14: NewHandle on a datablock of capacity N returns the lowest slot never issued
\* while there is one, whatever was given back meanwhile; once all N were issued it
\* returns a slot of the free list, which leaves the list; and it returns InvalidHandle
\* exactly when all N were issued and the free list is empty.
C14_UnopenedFirstInOrder ==
    [][ (lastOp'.op = "NewHandle" /\ ~fatal')
            => /\ IssuedCount(Datablock) < Datablock.Capacity
                      => /\ lastOp'.ret = IssuedCount(Datablock)
                         /\ Datablock'.NextHandle = IssuedCount(Datablock) + 1
                         /\ Datablock'.FreeHandles = Datablock.FreeHandles
               /\ (IssuedCount(Datablock) = Datablock.Capacity /\ Len(Datablock.FreeHandles) > 0)
                      => /\ lastOp'.ret \in FreeSet(Datablock)
                         /\ FreeSet(Datablock') = FreeSet(Datablock) \ {lastOp'.ret}
                         /\ Datablock'.NextHandle = Datablock.Capacity
               /\ (lastOp'.ret = InvalidHandle)
                      <=> (IssuedCount(Datablock) = Datablock.Capacity
                           /\ Len(Datablock.FreeHandles) = 0) ]_vars

\* The last unopened slot of a datablock of the largest capacity was issued while an
\* earlier slot was waiting on the free list.
C14_Witness ==
    /\ lastOp.op = "NewHandle"
    /\ Datablock.Capacity = MaxPoolCapacity
    /\ lastOp.ret = MaxPoolCapacity - 1
    /\ Datablock.NextHandle = MaxPoolCapacity
    /\ Len(Datablock.FreeHandles) > 0
    /\ ~fatal

\* C15 as stated: GarbageCollect frees the buffer of an allocated datablock exactly when
\* no issued slot is live: nothing was issued, or every issued slot is on the free list,
\* however many were issued.
C15_FreedWhenNoSlotIsLive ==
    [][ (lastOp'.op = "GarbageCollect" /\ Datablock.Allocated)
            => (~Datablock'.Allocated <=> LiveHandles(Datablock) = {}) ]_vars

\* C15: GarbageCollect frees the buffer when nothing was issued, or when all Capacity
\* slots were issued and every one is on the free list; the datablock then has no free
\* handle and no record. In every other case, a live slot or fewer than Capacity slots
\* issued, the datablock stays as it is.
C15_FreedWhenUnusedOrAllReturned ==
    [][ lastOp'.op = "GarbageCollect"
            => IF /\ Datablock.Allocated
                  /\ \/ Datablock.NextHandle = 0
                     \/ /\ Datablock.NextHandle = Datablock.Capacity
                        /\ LiveHandles(Datablock) = {}
               THEN /\ ~Datablock'.Allocated
                    /\ Datablock'.FreeHandles = <<>>
                    /\ Datablock'.Mem = NoMem
                    /\ Datablock'.Capacity = Datablock.Capacity
               ELSE Datablock' = Datablock ]_vars

\* GarbageCollect left the buffer of a datablock that had issued some of its slots, not
\* all, and had them all back.
C15_Witness ==
    /\ lastOp.op = "GarbageCollect" /\ ~lastOp.ret
    /\ Datablock.Allocated
    /\ Datablock.NextHandle > 0 /\ Datablock.NextHandle < Datablock.Capacity
    /\ LiveHandles(Datablock) = {}
    /\ ~fatal

\* C16: a datablock constructed with a desired capacity above MaxDatablockCapacity is one
\* of capacity MaxDatablockCapacity, and no check of the constructor fails.
C16_CapacityCapped ==
    (lastOp.op = "NewDatablock" /\ lastOp.tag[1] > MaxDatablockCapacity)
        => /\ ~fatal
           /\ Datablock.Capacity = MaxDatablockCapacity


----------------------------------------------------------------------------
(* Properties of saving and loading *)

\* The record of the cell of two indexed tags in the page of a structure.
RecordAt(pages, rows, columns, s, r, c) ==
    ReadPtr(pages[GetPageForStruct(pages, s)], GetCellData(pages, rows[r], columns[c], s).Ptr)

\* The step loads the archive the step before it saved, unchanged.
LoadsWhatWasSaved == lastOp.op = "Save" /\ lastOp'.op = "Load" /\ lastOp'.saved

\* The structures that are registered and have a page.
PagedStructures == { s \in Schemas : (\E i \in DOMAIN Structures : Structures[i] = s)
                                     /\ GetPageForStruct(Pages, s) # 0 }

\* C17: a save completes, and loading what it wrote reproduces the order of the row
\* and column tags and, for every registered structure with a page, the record of every
\* pair of a row tag and a column tag and the set of the inheritance links.
C17_RoundTripReproduces ==
    [][/\ lastOp'.op = "Save" => ~fatal'
       /\ LoadsWhatWasSaved =>
              /\ ~fatal'
              /\ KeysByIndex(Rows') = KeysByIndex(Rows)
              /\ KeysByIndex(Columns') = KeysByIndex(Columns)
              /\ \A s \in PagedStructures :
                     /\ GetPageForStruct(Pages', s) # 0
                     /\ \A r \in DOMAIN Rows, c \in DOMAIN Columns :
                            /\ r \in DOMAIN Rows' /\ c \in DOMAIN Columns'
                            /\ RecordAt(Pages', Rows', Columns', s, r, c)
                                   = RecordAt(Pages, Rows, Columns, s, r, c)
                     /\ SaveLinks(InheritanceMaps', s) = SaveLinks(InheritanceMaps, s)]_vars


\* The number of the tags of a map whose index is smaller than that of t.
RankByIndex(Map, t) == Cardinality({ u \in DOMAIN Map : Map[u] < Map[t] })

\* C18 as stated: after a save followed by a load, every row and column tag has the
\* index it had when the table was saved.
C18_IndicesKept ==
    [][LoadsWhatWasSaved =>
           /\ \A t \in DOMAIN Rows : t \in DOMAIN Rows' /\ Rows'[t] = Rows[t]
           /\ \A t \in DOMAIN Columns : t \in DOMAIN Columns' /\ Columns'[t] = Columns[t]]_vars

\* C18, amended: after a save followed by a load, every row and column tag that is
\* indexed was indexed when the table was saved, and its index is the number of the tags
\* that had a smaller index then; it is the index the tag had if and only if no smaller
\* index was free.
C18_IndicesAreRanks ==
    [][LoadsWhatWasSaved =>
           /\ \A t \in DOMAIN Rows' :
                  /\ t \in DOMAIN Rows
                  /\ Rows'[t] = RankByIndex(Rows, t)
                  /\ Rows'[t] = Rows[t] <=> \A i \in 0..(Rows[t] - 1) : \E u \in DOMAIN Rows : Rows[u] = i
           /\ \A t \in DOMAIN Columns' :
                  /\ t \in DOMAIN Columns
                  /\ Columns'[t] = RankByIndex(Columns, t)
                  /\ Columns'[t] = Columns[t]
                         <=> \A i \in 0..(Columns[t] - 1) : \E u \in DOMAIN Columns : Columns[u] = i]_vars

\* A table saved with a free index below the index of a tag was loaded, the load found
\* no error, and the tag is indexed.
C18_Witness ==
    /\ lastOp.op = "Load" /\ lastOp.saved /\ lastOp.moved
    /\ ~bHasLoadingErrors
    /\ DOMAIN Rows # {}


\* The table holds nothing.
TableIsEmpty ==
    /\ DOMAIN Rows = {} /\ DOMAIN Columns = {}
    /\ Pages = <<>>
    /\ DOMAIN RowColors = {} /\ DOMAIN ColumnColors = {}
    /\ DOMAIN InheritanceMaps = {}
    /\ NextRowIndex = 0 /\ NextColumnIndex = 0

\* C19: after the load of an archive of a format older than the oldest one that is
\* migrated, the table is empty: no rows, no columns, no pages, no colors, no links, and
\* both index counters at 0.
C19_UnsupportedFormatLeavesEmpty ==
    (lastOp.op = "Load" /\ lastOp.format < OldestMigratedFormat) => lastOp.ret /\ TableIsEmpty

\* A table that held rows, columns or pages loaded an archive of format 2.
C19_Witness ==
    /\ lastOp.op = "Load" /\ lastOp.format = OldestMigratedFormat - 1
    /\ lastOp.held
    /\ Len(RowTags) > 0
    /\ TableIsEmpty


\* C20: after a load that ended on a tag persisted twice or on a page of a structure the
\* table does not list, the table has no rows, no columns and no pages.
C20_AbortAppliesNothing ==
    (lastOp.op = "Load" /\ lastOp.abort \in {"duplicates", "schema"})
        => DOMAIN Rows = {} /\ DOMAIN Columns = {} /\ Pages = <<>>


----------------------------------------------------------------------------
(* Properties of a load *)

Range(q) == { q[i] : i \in DOMAIN q }

PositionIn(Tags, t) == CHOOSE i \in DOMAIN Tags : Tags[i] = t

\* An ancestor of t is not among the tags.
MissesAncestor(t, Tags) == \E n \in 1..(Len(t) - 1) : SubSeq(t, 1, n) \notin Range(Tags)

WholeTags(Tags) == { t \in Range(Tags) : ~MissesAncestor(t, Tags) }

\* The record an archive of one page holds for a row and a column.
ArchiveRecord(a, r, c) ==
    a.Pages[1].Data[(PositionIn(a.RowTags, r) - 1) * Len(a.ColumnTags)
                    + PositionIn(a.ColumnTags, c)]

\* The step is a load that ran to its end.
LoadCompletes ==
    /\ lastOp'.op = "Load" /\ lastOp'.ret /\ lastOp'.abort = "none"
    /\ lastOp'.format >= OldestMigratedFormat

\* C21: after a load that ran to its end, the indexed row and column tags are exactly
\* the persisted tags none of whose ancestors is missing from the persisted tags, so
\* every indexed tag has its parent indexed; the loading-error flag is set if a tag was
\* deleted; the tags that stay have the index of their place in the persisted tags and
\* the records of the archive; and the page rows and columns of the deleted tags hold no
\* record.
C21_LoadDeletesExactlyOrphans ==
    [][LoadCompletes =>
        /\ DOMAIN Rows' = WholeTags(Archive.RowTags)
        /\ DOMAIN Columns' = WholeTags(Archive.ColumnTags)
        /\ \A t \in DOMAIN Rows' : HasValidParent(t) => RequestDirectParent(t) \in DOMAIN Rows'
        /\ \A t \in DOMAIN Columns' :
               HasValidParent(t) => RequestDirectParent(t) \in DOMAIN Columns'
        /\ (WholeTags(Archive.RowTags) # Range(Archive.RowTags)
            \/ WholeTags(Archive.ColumnTags) # Range(Archive.ColumnTags)) => bHasLoadingErrors'
        /\ \A t \in DOMAIN Rows' : Rows'[t] = PositionIn(Archive.RowTags, t) - 1
        /\ \A t \in DOMAIN Columns' : Columns'[t] = PositionIn(Archive.ColumnTags, t) - 1
        /\ Len(Pages') = Len(Archive.Pages)
        /\ \A i \in DOMAIN Pages' :
               /\ \A r \in DOMAIN Rows', c \in DOMAIN Columns' :
                      /\ GetDatablockPtr(Pages'[i], Rows'[r], Columns'[c]).Ptr # NullPtr
                      /\ ReadPtr(Pages'[i], GetDatablockPtr(Pages'[i], Rows'[r], Columns'[c]).Ptr)
                             = ArchiveRecord(Archive, r, c)
               /\ \A x \in DOMAIN Archive.RowTags, y \in DOMAIN Archive.ColumnTags :
                      (Archive.RowTags[x] \notin DOMAIN Rows'
                       \/ Archive.ColumnTags[y] \notin DOMAIN Columns')
                          => GetDatablockPtr(Pages'[i], x - 1, y - 1)
                                 = [Ptr |-> NullPtr, Crashed |-> FALSE]]_vars

\* A load ran to its end and deleted a row and a column for a missing ancestor; a row
\* and a column stay, and their cell holds a record that is not the default.
C21_Witness ==
    /\ lastOp.op = "Load" /\ lastOp.abort = "none" /\ lastOp.format = FileFormatVersion
    /\ bHasLoadingErrors
    /\ Cardinality(DOMAIN Rows) < Len(RowTags)
    /\ Cardinality(DOMAIN Columns) < Len(ColumnTags)
    /\ Len(Pages) = 1
    /\ \E r \in DOMAIN Rows, c \in DOMAIN Columns :
           /\ GetDatablockPtr(Pages[1], Rows[r], Columns[c]).Ptr # NullPtr
           /\ ReadPtr(Pages[1], GetDatablockPtr(Pages[1], Rows[r], Columns[c]).Ptr) # DefaultValue


----------------------------------------------------------------------------
(* Properties of the link store *)

\* What TryGetInheritanceLink answers: whether the cell has a link, and the parent.
LinkAnswer(maps, InStruct, Child) ==
    <<TryGetInheritanceLink(maps, InStruct, Child).Ret,
      TryGetInheritanceLink(maps, InStruct, Child).OutParent>>

\* C22: a table without links answers false for every cell under every structure;
\* TryGetInheritanceLink returns the answer of the store and changes no answer;
\* SetInheritanceLink(S, c, p) makes the answer for c under S true with parent p, and
\* RemoveInheritanceLink(S, c) true with the invalid parent; both leave the answer for
\* every other cell under S, and for every cell under another structure, as it was.
C22_LinkStoreThreeStates ==
    [][/\ DOMAIN InheritanceMaps = {} =>
              \A s \in LinkStructs, c \in LinkableCells : ~LinkAnswer(InheritanceMaps, s, c)[1]
       /\ lastOp'.op = "TryGetInheritanceLink" =>
              /\ <<lastOp'.ret, lastOp'.parent>>
                     = LinkAnswer(InheritanceMaps, lastOp'.struct, lastOp'.tag)
              /\ \A s \in LinkStructs, c \in LinkableCells :
                     LinkAnswer(InheritanceMaps', s, c) = LinkAnswer(InheritanceMaps, s, c)
       /\ lastOp'.op \in {"SetInheritanceLink", "RemoveInheritanceLink"} =>
              /\ lastOp'.op = "RemoveInheritanceLink" => lastOp'.parent = NoCellTags
              /\ LinkAnswer(InheritanceMaps', lastOp'.struct, lastOp'.tag)
                     = <<TRUE, lastOp'.parent>>
              /\ \A s \in LinkStructs, c \in LinkableCells :
                     (s # lastOp'.struct \/ c # lastOp'.tag) =>
                         LinkAnswer(InheritanceMaps', s, c) = LinkAnswer(InheritanceMaps, s, c)]_vars

\* Under one structure a cell is linked and another is marked independent; the first
\* was just asked for under the other structure, which has links of its own, and the
\* answer was false.
C22_Witness ==
    /\ lastOp.op = "TryGetInheritanceLink" /\ ~lastOp.ret
    /\ \E s \in LinkStructs \ {lastOp.struct} :
           /\ LinkAnswer(InheritanceMaps, s, lastOp.tag)[1]
           /\ IsValidTag(LinkAnswer(InheritanceMaps, s, lastOp.tag)[2].Row)
           /\ \E c \in LinkableCells : LinkAnswer(InheritanceMaps, s, c) = <<TRUE, NoCellTags>>
    /\ \E c \in LinkableCells : LinkAnswer(InheritanceMaps, lastOp.struct, c)[1]


----------------------------------------------------------------------------
(* Properties of the rows of a page *)

\* Every live row has one entry per column, invalid exactly at the retired columns.
RowsFollowColumns(p) ==
    /\ p.DeletedColumns \subseteq 0..(p.Columns - 1)
    /\ \A i \in DOMAIN p.Rows :
           p.Rows[i].Valid =>
               /\ Len(p.Rows[i].Handles) = p.Columns
               /\ \A c \in 0..(p.Columns - 1) :
                      p.Rows[i].Handles[c + 1] = InvalidDataHandle <=> c \in p.DeletedColumns

\* C30: in a dynamic page every live row has exactly Columns entries, and the entry of
\* column c is the invalid handle if and only if c is retired, before and after every
\* call; no call lowers the column count or takes a column out of the retired ones, and
\* the column AddColumn adds has the index after all others, which is not retired.
C30_RowsFollowColumns ==
    [][(~fatal /\ ~fatal' /\ ~Pages[1].FixedMode) =>
           /\ RowsFollowColumns(Pages[1])
           /\ RowsFollowColumns(Pages'[1])
           /\ Pages'[1].Columns >= Pages[1].Columns
           /\ Pages[1].DeletedColumns \subseteq Pages'[1].DeletedColumns
           /\ lastOp'.op = "PageAddColumn" =>
                  /\ Pages'[1].Columns = Pages[1].Columns + 1
                  /\ Pages[1].Columns \notin Pages'[1].DeletedColumns
                  /\ Pages'[1].DeletedColumns = Pages[1].DeletedColumns]_vars

\* A row was added to a dynamic page with a retired column and a live one: its entry
\* of the one is invalid and its entry of the other is not.
C30_Witness ==
    /\ ~fatal /\ ~Pages[1].FixedMode
    /\ lastOp.op = "PageAddRow"
    /\ Pages[1].DeletedColumns # {}
    /\ Pages[1].Columns > Cardinality(Pages[1].DeletedColumns)
    /\ Pages[1].Rows[Len(Pages[1].Rows)].Valid
    /\ \E c \in DOMAIN Pages[1].Rows[Len(Pages[1].Rows)].Handles :
           Pages[1].Rows[Len(Pages[1].Rows)].Handles[c] # InvalidDataHandle


----------------------------------------------------------------------------
(* Properties of the pages of a table *)

\* The position of a page holds a record.
HoldsRecord(p, r, c) ==
    /\ p.Rows[r + 1].Valid
    /\ c < Len(p.Rows[r + 1].Handles)
    /\ HandlePtr(p, p.Rows[r + 1].Handles[c + 1]) # NullPtr

\* C28: all pages of the table have the same number of rows and the same number of
\* columns, and a position holds a record in one page if and only if it holds one in
\* every other page.
C28_PagesShareRowsAndColumns ==
    ~fatal =>
        \A i, j \in DOMAIN Pages :
            /\ Len(Pages[i].Rows) = Len(Pages[j].Rows)
            /\ Pages[i].Columns = Pages[j].Columns
            /\ \A r \in 0..(Len(Pages[i].Rows) - 1), c \in 0..(Pages[i].Columns - 1) :
                   HoldsRecord(Pages[i], r, c) <=> HoldsRecord(Pages[j], r, c)


----------------------------------------------------------------------------
(* Properties of a query for a row *)

\* The structure has a page, and the page a record in the row.
HasRecordInRow(s, r) ==
    /\ GetPageForStruct(Pages, s) # 0
    /\ r < Len(Pages[GetPageForStruct(Pages, s)].Rows)
    /\ \E c \in 0..(Pages[GetPageForStruct(Pages, s)].Columns - 1) :
           HoldsRecord(Pages[GetPageForStruct(Pages, s)], r, c)

\* The records of the indexed columns of a row in the page of a structure, by index.
RecordsOfRow(s, r) ==
    [k \in 1..Cardinality(DOMAIN Columns) |->
        GetDatablockPtr(Pages[GetPageForStruct(Pages, s)], r,
                        Columns[KeysByIndex(Columns)[k]]).Ptr]

\* C29: QueryForRow, called with an empty list, returns true if and only if the row tag
\* resolves and every requested structure has a page with a record in the row, and then
\* it returns for every requested structure the records of the indexed columns of the
\* row in the order of their indices.
C29_QueryForRowAllColumns ==
    lastOp.op = "QueryForRow" =>
        /\ ~fatal
        /\ lastOp.ret <=>
               /\ GetIndex(Rows, lastOp.tag, lastOp.exact) # InvalidIndex
               /\ \A i \in DOMAIN lastOp.structs :
                      HasRecordInRow(lastOp.structs[i], GetIndex(Rows, lastOp.tag, lastOp.exact))
        /\ lastOp.ret =>
               /\ Len(lastOp.out) = Len(lastOp.structs)
               /\ \A i \in DOMAIN lastOp.structs :
                      lastOp.out[i].CellDataArray
                          = RecordsOfRow(lastOp.structs[i],
                                         GetIndex(Rows, lastOp.tag, lastOp.exact))


----------------------------------------------------------------------------
(* Properties of the inheritance of the cells *)

\* The link the table stores for a cell of the editor, for the structure of the page in
\* view; NoCellTags marks the cell independent.
StoredLink(e, c) ==
    TryGetInheritanceLink(e.InheritanceMaps, e.ActivePageView, AsCellTags(c))

\* Cell u lies upstream of cell d: its row and its column are those of d or ancestors of
\* them, and it is not d.
Upstream(u, d) ==
    /\ u # d
    /\ (u[1] = d[1] \/ IsBelow(u[1], d[1]))
    /\ (u[2] = d[2] \/ IsBelow(u[2], d[2]))

\* No handler failed, every cell has a stored link that agrees with the cell the editor
\* has it inherit from, and every link leads to a cell that is independent.
ChainsOneHop(e) ==
    /\ ~e.Crashed
    /\ \A c \in DOMAIN e.CellTable :
           /\ StoredLink(e, c).Ret
           /\ StoredLink(e, c).OutParent
                  = (IF InheritsData(e, c) THEN AsCellTags(e.CellTable[c].InheritedCell)
                     ELSE NoCellTags)
           /\ InheritsData(e, c) =>
                  /\ e.CellTable[c].InheritedCell \in DOMAIN e.CellTable
                  /\ ~InheritsData(e, e.CellTable[c].InheritedCell)
                  /\ StoredLink(e, e.CellTable[c].InheritedCell).OutParent = NoCellTags

RECURSIVE PermutationsOf(_)
PermutationsOf(S) ==
    IF S = {} THEN {<<>>}
    ELSE UNION { { <<x>> \o q : q \in PermutationsOf(S \ {x}) } : x \in S }

\* The new cells in another order.
Reordered(NewCells, Order) == [i \in DOMAIN Order |-> NewCells[Order[i]]]

\* No cell comes before a cell upstream of it.
ParentsFirst(NewCells) ==
    \A i, j \in DOMAIN NewCells : i < j => ~Upstream(NewCells[j], NewCells[i])

\* The new rows or columns of OnAddTag and their cells, in place and not yet assigned.
TagAdded(SelectedTag, SelectedTagIsRow) ==
    IF SelectedTagIsRow
    THEN LET r == AddRow(Rows, NextRowIndex, Pages, SelectedTag)
             e == [EditorAtWork EXCEPT !.Pages = r.Pages]
         IN  [e |-> WithNewRows(e, r.Map, SelectedTag),
              NewCells |-> CellKeys(NewRowCells(e, r.Map, SelectedTag)),
              ColumnStream |-> FALSE]
    ELSE LET r == AddColumn(Columns, NextColumnIndex, Pages, SelectedTag)
             e == [EditorAtWork EXCEPT !.Pages = r.Pages]
         IN  [e |-> WithNewColumns(e, r.Map, SelectedTag),
              NewCells |-> CellKeys(NewColumnCells(e, r.Map, SelectedTag)),
              ColumnStream |-> TRUE]

\* Every order of the new cells leaves chains of one hop.
OneHopInEveryOrder(a) ==
    \A Order \in PermutationsOf(DOMAIN a.NewCells) :
        ChainsOneHop(AssignNewCells(a.e, Reordered(a.NewCells, Order), a.ColumnStream))

\* Every order of the new cells that has no cell before a cell upstream of it leaves
\* chains of one hop.
OneHopParentsFirst(a) ==
    \A Order \in PermutationsOf(DOMAIN a.NewCells) :
        ParentsFirst(Reordered(a.NewCells, Order)) =>
            ChainsOneHop(AssignNewCells(a.e, Reordered(a.NewCells, Order), a.ColumnStream))

RecordIn(pages, Cells, PageStruct, c) ==
    ReadPtr(pages[GetPageForStruct(pages, PageStruct)],
            GetCellData(pages, Cells[c].TableCell.Row, Cells[c].TableCell.Column,
                        PageStruct).Ptr)

CellRecord(e, c) == RecordIn(e.Pages, e.CellTable, e.ActivePageView, c)

\* C25: after every editing operation, every cell that inherits holds a record equal to
\* the record of the cell it inherits from.
C25_InheritingCellsHoldSourceRecord ==
    \A c \in DOMAIN Editor.CellTable :
        InheritsData(EditorAtWork, c) =>
            CellRecord(EditorAtWork, c)
                = CellRecord(EditorAtWork, Editor.CellTable[c].InheritedCell)


\* The records of the cells in the page in view.
CellRecords(e) == [c \in DOMAIN e.CellTable |-> CellRecord(e, c)]

\* The same of pages and cells given apart.
RecordsIn(pages, Cells, PageStruct) ==
    [c \in DOMAIN Cells |-> RecordIn(pages, Cells, PageStruct, c)]

\* The cells downstream of c that inherit through c: from a cell upstream of c, with no
\* independent cell between c and them.
InheritingThrough(Cells, c) ==
    { d \in DOMAIN Cells :
        /\ Upstream(c, d)
        /\ Cells[d].InheritedCell # NoCell
        /\ Upstream(Cells[d].InheritedCell, c)
        /\ ~\E i \in DOMAIN Cells :
               Cells[i].InheritedCell = NoCell /\ Upstream(c, i) /\ Upstream(i, d) }

\* What making c independent does to cells that were Before with records Old, and are
\* After with records New.
MadeIndependent(c, Before, After, Old, New) ==
    /\ DOMAIN After = DOMAIN Before
    /\ After[c].InheritedCell = NoCell
    /\ \A d \in InheritingThrough(Before, c) :
           After[d].InheritedCell = c /\ New[d] = New[c]
    /\ \A d \in DOMAIN Before :
           (d # c /\ ~Upstream(c, d)) =>
               After[d].InheritedCell = Before[d].InheritedCell /\ New[d] = Old[d]

\* C24: when an inheriting cell c is made independent, by LockCell or by an edit of its
\* value, c is independent afterwards, every cell downstream of c that inherited through
\* c with no independent cell between inherits from c and holds the record of c, and
\* every cell that is not downstream of c (the former source of c among them) keeps its
\* link and its record.
C24_MakeIndependentRepoints ==
    [][ ( /\ lastOp'.op \in {"LockCell", "OnCellPropertyValueChanged"}
          /\ ~fatal'
          /\ InheritsData(EditorAtWork, lastOp'.tag) ) =>
            \A Old \in {CellRecords(EditorAtWork)},
                   New \in {RecordsIn(Pages', Editor'.CellTable, Editor'.ActivePageView)} :
                MadeIndependent(lastOp'.tag, Editor.CellTable, Editor'.CellTable, Old, New)
      ]_vars

----------------------------------------------------------------------------
(* Properties of a paste *)

\* The cells a paste was onto.
Pasted(op) == { c \in DOMAIN op.tag : op.tag[c] }

\* The editor after a paste that strips every target before it writes to it.
StrippedThenWritten(e, TargetCells, VisibleProperties) ==
    LET From       == e.CellTable[e.ReferenceCell].TableCell
        SourceData == GetCellData(e.Pages, From.Row, From.Column, e.ActivePageView)
    IN  PasteIntoStrippedCells(e, SourceData.Ptr, TargetCells, 1, VisibleProperties # {},
                               VisibleProperties)

----------------------------------------------------------------------------
(* Properties of the assignment of new cells *)

\* The cell the rule has a new cell inherit through: for a new row the cell of the parent
\* row, else that of the parent column; for a new column the other way round; no cell
\* when row and column are top-level tags both.
RuleParent(c, ForRow) ==
    LET RowParent    == <<RequestDirectParent(c[1]), c[2]>>
        ColumnParent == <<c[1], RequestDirectParent(c[2])>>
    IN  IF ForRow
        THEN (IF HasValidParent(c[1]) THEN RowParent
              ELSE IF HasValidParent(c[2]) THEN ColumnParent ELSE NoCell)
        ELSE (IF HasValidParent(c[2]) THEN ColumnParent
              ELSE IF HasValidParent(c[1]) THEN RowParent ELSE NoCell)

\* The cell a cell comes to inherit from when it is given the parent p: p, or the cell p
\* inherits from.
SourceThrough(Cells, p) ==
    IF p = NoCell THEN NoCell
    ELSE IF Cells[p].InheritedCell # NoCell THEN Cells[p].InheritedCell ELSE p

\* C27: when OnAddTag adds rows or columns, every new cell that has no stored link gets
\* its parent by the rule: for a new row the cell of the parent row in the same column if
\* the row has a parent, else the cell of the same row in the parent column if the
\* column has one; for a new column the column parent first, then the row parent; a cell
\* of a top-level row and a top-level column is marked independent. The cell inherits
\* from that parent, or from the cell the parent inherits from.
C27_NewCellsFollowTheRule ==
    [][ (lastOp'.op = "OnAddTag" /\ lastOp'.ret /\ ~fatal') =>
            \A ForRow \in {lastOp'.tag[2]}, Was \in {EditorAtWork} :
                \A c \in DOMAIN Editor'.CellTable \ DOMAIN Editor.CellTable :
                    ~StoredLink(Was, c).Ret =>
                        /\ Editor'.CellTable[c].InheritedCell
                               = SourceThrough(Editor'.CellTable, RuleParent(c, ForRow))
                        /\ RuleParent(c, ForRow) # NoCell =>
                               RuleParent(c, ForRow) \in DOMAIN Editor'.CellTable
                        /\ RuleParent(c, ForRow) = NoCell =>
                               LinkAnswer(InheritanceMaps', Editor'.ActivePageView,
                                          AsCellTags(c))
                                   = <<TRUE, NoCellTags>>
      ]_vars

\* A row was added whose new cell takes the parent of the row, an independent cell that
\* is not top-level, though the column has a parent as well.
C27_Witness ==
    /\ lastOp.op = "OnAddTag"
    /\ lastOp.ret
    /\ lastOp.tag[2]
    /\ ~fatal
    /\ \E c \in DOMAIN Editor.CellTable :
           /\ c[1] = lastOp.tag[1]
           /\ HasValidParent(c[1])
           /\ HasValidParent(c[2])
           /\ Editor.CellTable[c].InheritedCell = <<RequestDirectParent(c[1]), c[2]>>

----------------------------------------------------------------------------
(* Properties of the deletion of a row or a column of a page *)

\* The handles of the sequence were released to the datablocks that own them, once each
\* and in their order, and nothing else became of the datablocks: every free list grew by
\* the valid handles of its datablock.
ReleasedOnce(Before, After, Handles) ==
    /\ Len(After.Datablocks) = Len(Before.Datablocks)
    /\ \A b \in DOMAIN Before.Datablocks :
           LET Owned(h) == h # InvalidDataHandle /\ h.hi = b - 1
               Mine     == SelectSeq(Handles, Owned)
           IN  After.Datablocks[b] =
                   [Before.Datablocks[b] EXCEPT
                       !.FreeHandles = @ \o [k \in DOMAIN Mine |-> Mine[k].lo]]

\* C31: DeleteRow(i) of a page releases each valid handle of row i to the datablock that
\* owns it once, and leaves the empty marker for the row, so that the page has no record
\* for any cell of the row; DeleteColumn(j) releases the valid handle at column j of
\* every live row once and sets it invalid; the handles of all other cells stay.
C31_DeleteReleasesOnce ==
    [][ /\ (lastOp'.op = "PageDeleteRow" /\ ~fatal') =>
               \A Before \in {Pages[1]}, After \in {Pages'[1]}, i \in {lastOp'.tag[1] + 1} :
                   /\ ReleasedOnce(Before, After, Before.Rows[i].Handles)
                   /\ After.Rows[i] = NoRow
                   /\ \A c \in 0..(After.Columns - 1) :
                          GetDatablockPtr(After, i - 1, c) = [Ptr |-> NullPtr, Crashed |-> FALSE]
                   /\ DOMAIN After.Rows = DOMAIN Before.Rows
                   /\ \A k \in DOMAIN Before.Rows : k # i => After.Rows[k] = Before.Rows[k]
        /\ (lastOp'.op = "PageDeleteColumn" /\ ~fatal') =>
               \A Before \in {Pages[1]}, After \in {Pages'[1]}, j \in {lastOp'.tag[1] + 1} :
                   /\ ReleasedOnce(Before, After,
                                   [k \in DOMAIN Before.Rows |->
                                       IF Before.Rows[k].Valid THEN Before.Rows[k].Handles[j]
                                       ELSE InvalidDataHandle])
                   /\ DOMAIN After.Rows = DOMAIN Before.Rows
                   /\ \A k \in DOMAIN Before.Rows :
                          /\ After.Rows[k].Valid = Before.Rows[k].Valid
                          /\ DOMAIN After.Rows[k].Handles = DOMAIN Before.Rows[k].Handles
                          /\ \A c \in DOMAIN Before.Rows[k].Handles :
                                 After.Rows[k].Handles[c] =
                                     IF c = j /\ Before.Rows[k].Valid THEN InvalidDataHandle
                                     ELSE Before.Rows[k].Handles[c]
      ]_vars

\* A row was deleted that held a valid handle and an invalid one, while another row is
\* live.
C31_Witness ==
    /\ lastOp.op = "PageDeleteRow"
    /\ ~fatal
    /\ Pages[1].DeletedColumns # {}
    /\ Pages[1].Columns > Cardinality(Pages[1].DeletedColumns)
    /\ \E b \in DOMAIN Pages[1].Datablocks :
           Len(Pages[1].Datablocks[b].FreeHandles) > Cardinality(Pages[1].DeletedColumns)
    /\ \E k \in DOMAIN Pages[1].Rows : Pages[1].Rows[k].Valid

----------------------------------------------------------------------------
(* Properties of the order tags are indexed in *)

\* Of the tags a call has indexed, Earlier(a, d) holds of every ancestor a and
\* descendant d.
NewlyIndexedInOrder(Before, After, Earlier(_, _)) ==
    \A a, d \in DOMAIN After \ DOMAIN Before : IsBelow(a, d) => Earlier(After[a], After[d])

\* C32 (as stated): AddRow and AddColumn index the missing ancestors of the new tag
\* before the tag: every ancestor a call indexes receives a smaller index than its
\* descendants the same call indexes.
C32_AncestorsIndexedFirst ==
    [][ /\ (lastOp'.op = "AddRow" /\ lastOp'.ret /\ ~fatal') =>
               LET Smaller(x, y) == x < y IN NewlyIndexedInOrder(Rows, Rows', Smaller)
        /\ (lastOp'.op = "AddColumn" /\ lastOp'.ret /\ ~fatal') =>
               LET Smaller(x, y) == x < y IN NewlyIndexedInOrder(Columns, Columns', Smaller)
      ]_vars

\* C32 (amended): AddRow and AddColumn index the new tag first and its missing ancestors
\* after it, the nearest first: every ancestor a call indexes receives a larger index
\* than its descendants the same call indexes.
C32_TagIndexedFirst ==
    [][ /\ (lastOp'.op = "AddRow" /\ lastOp'.ret /\ ~fatal') =>
               /\ LET Larger(x, y) == x > y IN NewlyIndexedInOrder(Rows, Rows', Larger)
               /\ Rows'[lastOp'.tag] = NextRowIndex
        /\ (lastOp'.op = "AddColumn" /\ lastOp'.ret /\ ~fatal') =>
               /\ LET Larger(x, y) == x > y IN NewlyIndexedInOrder(Columns, Columns', Larger)
               /\ Columns'[lastOp'.tag] = NextColumnIndex
      ]_vars

\* AddRow has indexed a tag and, after it, its parent.
C32_Witness ==
    /\ lastOp.op = "AddRow"
    /\ lastOp.ret
    /\ ~fatal
    /\ HasValidParent(lastOp.tag)
    /\ RequestDirectParent(lastOp.tag) \in DOMAIN Rows
    /\ Rows[lastOp.tag] = NextRowIndex - 2
    /\ Rows[RequestDirectParent(lastOp.tag)] = NextRowIndex - 1

----------------------------------------------------------------------------
(* Properties of the headers the editor adds and deletes *)

\* Every ancestor of an indexed tag is indexed.
AncestorsIndexed(Map) ==
    \A t \in DOMAIN Map : \A n \in 1..Len(t) : SubSeq(t, 1, n) \in DOMAIN Map

\* The tags of a map without a tag and the tags below it.
WithoutSubtree(Map, Tag) == { t \in DOMAIN Map : t # Tag /\ ~IsBelow(Tag, t) }

\* C33: after any sequence of add-tag and delete-header operations of the editor, the
\* whole ancestor chain of every indexed tag is indexed; DeleteRow and DeleteColumn of the
\* editor take from the table the tag of the node and the tags of all its descendants; and
\* CellTable holds a cell for exactly the indexed pairs of a row and a column.
C33_HeadersStayWhole ==
    /\ [](~fatal => /\ AncestorsIndexed(Rows)
                    /\ AncestorsIndexed(Columns)
                    /\ DOMAIN Editor.CellTable = (DOMAIN Rows) \X (DOMAIN Columns)
                    /\ NodeTags(Editor.RowRoot) = DOMAIN Rows
                    /\ NodeTags(Editor.ColumnRoot) = DOMAIN Columns)
    /\ [][ /\ (lastOp'.op = "EditorDeleteRow" /\ ~fatal') =>
                  /\ DOMAIN Rows' = WithoutSubtree(Rows, lastOp'.tag)
                  /\ \A t \in DOMAIN Rows' : Rows'[t] = Rows[t]
                  /\ Columns' = Columns
           /\ (lastOp'.op = "EditorDeleteColumn" /\ ~fatal') =>
                  /\ DOMAIN Columns' = WithoutSubtree(Columns, lastOp'.tag)
                  /\ \A t \in DOMAIN Columns' : Columns'[t] = Columns[t]
                  /\ Rows' = Rows
         ]_vars

\* DeleteRow of the editor has deleted a row and the row below it, of a table that has
\* columns.
C33_Witness ==
    /\ lastOp.op = "EditorDeleteRow"
    /\ ~fatal
    /\ Len(lastOp.walked) > 1
    /\ Columns # EmptyMap
    /\ NextRowIndex > Len(lastOp.walked)

----------------------------------------------------------------------------
(* Properties of the indices a load issues *)

\* The tags before the first place of t in the persisted tags.
TagsBefore(Tags, t) == { Tags[j] : j \in 1..(PositionIn(Tags, t) - 1) }

\* The step is a load that has rebuilt the indices from the persisted tags.
LoadReconstructs ==
    lastOp'.op = "Load" /\ lastOp'.ret /\ lastOp'.format >= OldestMigratedFormat

\* The indices as the reconstruction leaves them: 0..n-1 in the order of the persisted
\* tags, a tag that comes again taking none, and the counter at the number of the tags.
\* Stays says that nothing was deleted after the reconstruction.
Reconstructed(Map, Next, Tags, Stays) ==
    /\ Next = Cardinality(Range(Tags))
    /\ DOMAIN Map \subseteq Range(Tags)
    /\ \A t \in DOMAIN Map : Map[t] = Cardinality(TagsBefore(Tags, t))
    /\ Stays => /\ DOMAIN Map = Range(Tags)
                /\ { Map[t] : t \in DOMAIN Map } = 0..(Next - 1)
                /\ Next = Cardinality(DOMAIN Map)

\* C34: right after a load has rebuilt the indices, the row indices are exactly 0..n-1
\* and the column indices exactly 0..m-1 in the order of the persisted tags (the gaps
\* deletions left in the saved session are closed, a persisted tag that comes twice
\* takes no index), and each counter is the number of the indexed tags.  A load
\* that stops on an error stops right there; one that runs on deletes the tags that miss
\* an ancestor, and leaves the other tags and the counters as they were rebuilt.
C34_LoadIssuesDenseIndices ==
    [][LoadReconstructs =>
          /\ Reconstructed(Rows', NextRowIndex', RowTags',
                           lastOp'.abort # "none" \/ WholeTags(RowTags') = Range(RowTags'))
          /\ Reconstructed(Columns', NextColumnIndex', ColumnTags',
                           lastOp'.abort # "none" \/ WholeTags(ColumnTags') = Range(ColumnTags'))
      ]_vars

\* A table saved with a free index below the index of a row was loaded from a file that
\* names a row tag twice: the load stopped after it had rebuilt the indices.
C34_Witness ==
    /\ lastOp.op = "Load" /\ lastOp.ret /\ lastOp.moved
    /\ lastOp.abort = "duplicates"
    /\ HasDuplicates(RowTags)
    /\ Cardinality(DOMAIN Rows) > 1
    /\ ~fatal

----------------------------------------------------------------------------
(* Properties of a query that fails *)

\* C35: when Query or QueryForRow returns false, it has appended no record to the list
\* of the caller, which was empty on entry: a query that fails returns nothing, also
\* when only some of the requested structures are missing.
C35_FailedQueryAppendsNothing ==
    (lastOp.op \in {"Query", "QueryForRow"} /\ ~lastOp.ret /\ ~fatal) => lastOp.out = <<>>

----------------------------------------------------------------------------
(* Properties of the pages after a change of Structures *)

\* C36: after the Structures list has changed, there is exactly one page for every
\* registered structure that is not null and no page for a structure that is gone, and
\* every indexed pair of a row and a column resolves to a record in every page, also in
\* a page made after rows or columns had been deleted, with or without other pages there
\* at that time.
C36_PagesCoverIndexedCells ==
    [][ (lastOp'.op = "PostEditChangeProperty") =>
           /\ ~fatal'
           /\ \A i \in DOMAIN Structures' :
                  Structures'[i] # NullStruct =>
                      Cardinality({ k \in DOMAIN Pages' : Pages'[k].Struct = Structures'[i] }) = 1
           /\ \A k \in DOMAIN Pages' :
                  \E i \in DOMAIN Structures' : Structures'[i] = Pages'[k].Struct
           /\ \A k \in DOMAIN Pages', r \in DOMAIN Rows', c \in DOMAIN Columns' :
                  LET Data == GetDatablockPtr(Pages'[k], Rows'[r], Columns'[c])
                  IN  ~Data.Crashed /\ Data.Ptr # NullPtr ]_vars

----------------------------------------------------------------------------
(* Properties of the links the editor stores *)

\* The links on file that are not the marker of an independent cell, as <<child, parent>>.
StoredParents ==
    { l \in (TagDictionary \X TagDictionary) \X (TagDictionary \X TagDictionary) :
        \E s \in DOMAIN InheritanceMaps :
            LinkAnswer(InheritanceMaps, s, AsCellTags(l[1])) = <<TRUE, AsCellTags(l[2])>> }

\* The cells that have a link or a marker on file.
StoredChildren ==
    { c \in TagDictionary \X TagDictionary :
        \E s \in DOMAIN InheritanceMaps : LinkAnswer(InheritanceMaps, s, AsCellTags(c))[1] }

\* C37: every stored link that is not the marker of an independent cell points
\* upstream: the row tag of the parent is the row tag of the child or one of its
\* ancestors, the column tag of the parent is the column tag of the child or one of its
\* ancestors, and the parent is not the child.
C37_LinksPointUpstream ==
    ~fatal =>
        \A s \in DOMAIN InheritanceMaps, c \in StoredChildren :
            LET Parent == LinkAnswer(InheritanceMaps, s, AsCellTags(c))[2]
            IN  Parent # NoCellTags =>
                    /\ IsValidTag(Parent.Row) /\ IsValidTag(Parent.Column)
                    /\ Upstream(<<Parent.Row, Parent.Column>>, c)

\* Links are on file to a parent in the same column, to one in the same row and to one
\* in neither, and a cell is marked independent.
C37_Witness ==
    /\ ~fatal
    /\ \E l \in StoredParents : l[1][1] # l[2][1] /\ l[1][2] = l[2][2]
    /\ \E l \in StoredParents : l[1][1] = l[2][1] /\ l[1][2] # l[2][2]
    /\ \E l \in StoredParents : l[1][1] # l[2][1] /\ l[1][2] # l[2][2]
    /\ \E c \in StoredChildren, s \in DOMAIN InheritanceMaps :
           LinkAnswer(InheritanceMaps, s, AsCellTags(c)) = <<TRUE, NoCellTags>>

----------------------------------------------------------------------------
(* Properties of a header that is deleted and added again *)

\* C38: deleting a row or a column removes the links of its cells from the file; a cell
\* made again by adding a deleted tag again has its inheritance assigned by the rule,
\* not restored from a link or a marker stored before the deletion.
C38_DeletionForgetsLinks ==
    [][ /\ (lastOp'.op \in {"EditorDeleteRow", "EditorDeleteColumn"} /\ ~fatal') =>
               \A c \in DOMAIN Editor.CellTable \ DOMAIN Editor'.CellTable :
                   \A s \in DOMAIN InheritanceMaps' :
                       ~LinkAnswer(InheritanceMaps', s, AsCellTags(c))[1]
        /\ (lastOp'.op = "OnAddTag" /\ lastOp'.ret /\ ~fatal') =>
               \A ForRow \in {lastOp'.tag[2]} :
                   \A c \in DOMAIN Editor'.CellTable \ DOMAIN Editor.CellTable :
                       Editor'.CellTable[c].InheritedCell
                           = SourceThrough(Editor'.CellTable, RuleParent(c, ForRow))
      ]_vars

----------------------------------------------------------------------------
(* Properties of a load after a load *)

\* The archive names every tag once and no tag without its ancestors, and none of its
\* structures is null.
WellFormed(a) ==
    /\ a.Saved
    /\ a.Format = FileFormatVersion
    /\ ~HasDuplicates(a.RowTags) /\ ~HasDuplicates(a.ColumnTags)
    /\ WholeTags(a.RowTags) = Range(a.RowTags)
    /\ WholeTags(a.ColumnTags) = Range(a.ColumnTags)
    /\ \A i \in DOMAIN a.Structures : a.Structures[i] # NullStruct

\* C39: what a load leaves depends on the archive and on the persisted lists of tags
\* and structures alone, not on the loads before it: the load of a well-formed archive
\* into a table whose load before raised the loading-error flag leaves the table fully
\* loaded, with the flag clear.
C39_LoadForgetsEarlierLoads ==
    [][ ( /\ LoadsWhatWasSaved
          /\ lastOp'.ret
          /\ WellFormed(Archive)
          /\ bHasLoadingErrors ) =>
            /\ ~bHasLoadingErrors'
            /\ lastOp'.abort = "none"
            /\ DOMAIN Rows' = Range(Archive.RowTags)
            /\ DOMAIN Columns' = Range(Archive.ColumnTags)
            /\ Len(Pages') = Len(Archive.Pages) ]_vars

====
